---------------------------- MODULE Spec2Model ----------------------------
(***************************************************************************)
(* Frequency planning of qubex's ExperimentSystem                          *)
(* (src/src/qubex/backend/experiment_system.py).                           *)
(*                                                                         *)
(* Units.  The source keeps "logical" frequencies as floats in GHz         *)
(* (ge_frequency, ef_frequency, resonator.frequency) and hardware          *)
(* frequencies as ints in Hz (lo, cnco, fnco).  TLC integers are 32 bit,   *)
(* so the model counts                                                     *)
(*   - GHz-side values in units of 1 MHz,                                  *)
(*   - Hz-side  values in units of 62.5 kHz (the largest unit that divides *)
(*     1 MHz and every default grid constant: 23_437_500 Hz = 375 units,   *)
(*     500_000_000 Hz = 8000 units),                                       *)
(* and the conversion `x * 1e9` of the source is GHzToHz(x) = x * 16.      *)
(*                                                                         *)
(* Floats.  A Python float is modelled as an exact rational with the fixed *)
(* denominator Scale: the float x is the integer x * Scale.  Scale is a    *)
(* multiple of 2 and of every list length that occurs, so that the         *)
(* midpoints (a + b) / 2, the half width max_diff * 0.5 and the means      *)
(* np.mean(...) of the source are exact.  Rounding of IEEE doubles is not  *)
(* modelled.                                                               *)
(***************************************************************************)
EXTENDS Integers, Sequences, FiniteSets, TLC

VARIABLES
    pc,                     \* position of the caller: "ready" before the call, "done" after it
    mux,                    \* find_readout_lo_nco: mux.resonators, the resonator frequencies (GHz side)
    qubit,                  \* find_control_lo_nco: the control qubit, [ge_frequency, ef_frequency]
    spectators,             \* get_spectator_qubits(qubit.label): their ge_frequency, in order
    n_channels,             \* find_control_lo_nco: n_channels
    kwargs,                 \* keyword arguments of the planner call (grids, cnco, mandatory, max_diff)
    frequencies,            \* find_optimal_center_frequency: frequencies
    max_diff,               \* find_optimal_center_frequency: max_diff
    mandatory_frequencies,  \* find_optimal_center_frequency: mandatory_frequencies (None or a list)
    result,                 \* what the call (or the constructor) returned or raised
    quantum_system,         \* self._quantum_system: qubits, muxes with their resonators, spectators
    control_system,         \* self._control_system: the boxes and the state of their ports
    wiring_info,            \* self._wiring_info: ctrl, read_out, read_in
    control_params,         \* self._control_params
    qubit_port_set_map,     \* self._qubit_port_set_map
    next_port,              \* _initialize_system: position of the loop over box.ports
    targets,                \* the registries built by _initialize_targets
    first_system,           \* the system constructed before from the same four arguments
    pending,                \* port id -> its initialization has not run yet (any order)
    given_label,            \* the label given to a Target class method or to a lookup
    qubits                  \* get_boxes_for_qubits: qubits

\* the arguments of a direct call of a planner method
callVars == <<mux, qubit, spectators, n_channels, kwargs, frequencies, max_diff,
              mandatory_frequencies>>

\* the fields of an ExperimentSystem under construction
facadeVars == <<quantum_system, control_system, wiring_info, control_params,
                qubit_port_set_map, next_port, targets, first_system, pending>>

\* the arguments of a label method and of a lookup of the facade
lookupVars == <<given_label, qubits>>

vars == <<pc, result, callVars, lookupVars, facadeVars>>

(***************************************************************************)
(* Bounds of the model.                                                    *)
(***************************************************************************)
MaxResonators == 2      \* resonators per mux
MaxSpectators == 2      \* spectator qubits of a control qubit
MaxFrequencies == 3     \* length of `frequencies` in a direct call
MaxLabelParts == 3      \* pieces a label given to a Target class method is made of
MaxMandatory == 2       \* length of `mandatory_frequencies` in a direct call

\* an optional list argument: None, or the list given
None == [given |-> FALSE, list |-> <<>>]

Some(l) == [given |-> TRUE, list |-> l]

NotFound == [found |-> FALSE]

Found(x) == [found |-> TRUE, value |-> x]

NoResult == [status |-> "none"]

\* a call that returned the float v / that raised ValueError(m)
Returned(v) == [status |-> "ok", value |-> v]

Raised(m) == [status |-> "ValueError", msg |-> m]

(***************************************************************************)
(* Arithmetic helpers.                                                     *)
(***************************************************************************)
Abs(x) == IF x < 0 THEN -x ELSE x

MaxOf(S) == CHOOSE x \in S : \A y \in S : y <= x

MinOf(S) == CHOOSE x \in S : \A y \in S : x <= y

Range(s) == {s[i] : i \in DOMAIN s}

RECURSIVE SeqSum(_)
SeqSum(s) == IF s = <<>> THEN 0 ELSE Head(s) + SeqSum(Tail(s))

RECURSIVE Gcd(_, _)
Gcd(a, b) == IF b = 0 THEN a ELSE Gcd(b, a % b)

RECURSIVE LcmUpTo(_)
LcmUpTo(n) == IF n <= 1 THEN 1 ELSE (LcmUpTo(n - 1) * n) \div Gcd(LcmUpTo(n - 1), n)

\* longest list whose mean or midpoint is taken: a direct call, or the
\* mandatory ge/ef plus the spectators in find_control_lo_nco
MaxListLen == IF MaxFrequencies > MaxSpectators + 2 THEN MaxFrequencies ELSE MaxSpectators + 2

Scale == LcmUpTo(IF MaxListLen < 2 THEN 2 ELSE MaxListLen)

Float(n) == n * Scale

\* `x * 1e9`: 1 MHz (GHz-side unit) = 16 * 62.5 kHz (Hz-side unit)
GHzToHz(x) == x * 16

\* n MHz as a Hz-side integer
MHz(n) == n * 16

\* Python range(start, stop + 1, step) as a sequence, step > 0
PyRange(start, last, step) ==
    LET n == IF last < start THEN 0 ELSE ((last - start) \div step) + 1
    IN  [i \in 1..n |-> start + (i - 1) * step]

\* The loop `min_diff = inf; for x in xs: if diff(x) < min_diff: best = x`
\* run over xs[a..b]: the index of the first smallest diff, 0 when the loop
\* body never ran (best is None).  The scan of a..b is the scan of the left
\* half followed by the scan of the right half, whose winner replaces the
\* left one only when strictly smaller; halving keeps the evaluation shallow.
\* the same loop with `<=` for `<`: the last smallest diff wins
RECURSIVE FirstMinIn_LastWins(_, _, _)
FirstMinIn_LastWins(diffs, a, b) ==
    IF a > b THEN 0
    ELSE IF a = b THEN a
    ELSE LET mid   == (a + b) \div 2
             left  == FirstMinIn_LastWins(diffs, a, mid)
             right == FirstMinIn_LastWins(diffs, mid + 1, b)
         IN  IF diffs[right] <= diffs[left] THEN right ELSE left

RECURSIVE FirstMinIn(_, _, _)
FirstMinIn(diffs, a, b) ==
    IF a > b THEN 0
    ELSE IF a = b THEN a
    ELSE LET mid   == (a + b) \div 2
             left  == FirstMinIn(diffs, a, mid)
             right == FirstMinIn(diffs, mid + 1, b)
         IN  IF diffs[right] < diffs[left] THEN right ELSE left

FirstMin(diffs) == FirstMinIn(diffs, 1, Len(diffs))

(***************************************************************************)
(* find_readout_lo_nco                                                     *)
(***************************************************************************)
\* the defaults as the docstring of find_readout_lo_nco states them
ReadoutDefaults_Docstring ==
    [lo_min |-> MHz(8000), lo_max |-> MHz(11000), lo_step |-> MHz(500),
     nco_step |-> 375, cnco |-> MHz(2250), fnco_min |-> -12000, fnco_max |-> 12000]

ReadoutDefaults ==
    [lo_min |-> MHz(8000), lo_max |-> MHz(11000), lo_step |-> MHz(500),
     nco_step |-> 375, cnco |-> MHz(1500), fnco_min |-> -3750, fnco_max |-> 3750]

\* target_frequency = (max(frequencies) + min(frequencies)) / 2, a float
readout_target_frequency(m) ==
    LET fs == {Float(GHzToHz(m[i])) : i \in DOMAIN m}
    IN  (MaxOf(fs) + MinOf(fs)) \div 2

\* current_value with the cnco term forgotten
readout_current_value_NoCnco(lo, cnco, fnco) == lo + fnco

\* current_value = lo + cnco + fnco
readout_current_value(lo, cnco, fnco) == lo + cnco + fnco

find_readout_lo_nco(m, kw) ==
    IF m = <<>> THEN Raised("max() arg is an empty sequence")
    ELSE
    LET target_frequency == readout_target_frequency(m)
        los   == PyRange(kw.lo_min, kw.lo_max, kw.lo_step)
        fncos == PyRange(kw.fnco_min, kw.fnco_max, kw.nco_step)
        nf    == Len(fncos)
        \* the pairs in the order of the nested loops: lo outer, fnco inner
        pairs == [k \in 1..(Len(los) * nf) |->
                     [lo |-> los[((k - 1) \div nf) + 1], fnco |-> fncos[((k - 1) % nf) + 1]]]
        diffs == [k \in DOMAIN pairs |->
                     Abs(Float(readout_current_value(pairs[k].lo, kw.cnco, pairs[k].fnco))
                         - target_frequency)]
        best  == FirstMin(diffs)
    IN  IF best = 0 THEN Raised("No valid (lo, fnco) pair found.")
        ELSE [status |-> "ok", lo |-> pairs[best].lo, cnco |-> kw.cnco,
              fnco |-> pairs[best].fnco]

(***************************************************************************)
(* find_optimal_center_frequency                                           *)
(* All arguments and the value returned are floats.                        *)
(***************************************************************************)
\* max(center_freqs_by_count, key=lambda x: x[0]): the first entry with the
\* largest count
\* the same with `>=` for `>`: the last entry with the largest count
RECURSIVE FirstMaxFrom_LastWins(_, _, _)
FirstMaxFrom_LastWins(counts, i, best) ==
    IF i > Len(counts) THEN best
    ELSE FirstMaxFrom_LastWins(counts, i + 1,
                               IF best = 0 \/ counts[i] >= counts[best] THEN i ELSE best)

RECURSIVE FirstMaxFrom(_, _, _)
FirstMaxFrom(counts, i, best) ==
    IF i > Len(counts) THEN best
    ELSE FirstMaxFrom(counts, i + 1,
                      IF best = 0 \/ counts[i] > counts[best] THEN i ELSE best)

FirstMax(counts) == FirstMaxFrom(counts, 1, 0)

\* the filter written `f >= 0`: the unset sentinel is kept
positive_frequencies_KeepZero(fs) == SelectSeq(fs, LAMBDA f : f >= 0)

\* [f for f in frequencies if f > 0]
positive_frequencies(fs) == SelectSeq(fs, LAMBDA f : f > 0)

\* the test of case 1 written with `<`
fits_one_window_Strict(f_max, f_min, md) == f_max - f_min < md

\* f_max - f_min <= max_diff
fits_one_window(f_max, f_min, md) == f_max - f_min <= md

\* the window without its edges: p - d < f < p + d
covered_frequencies_Open(fs, p, d) == SelectSeq(fs, LAMBDA f : p - d < f /\ f < p + d)

\* [f for f in frequencies if p - d <= f <= p + d]
covered_frequencies(fs, p, d) == SelectSeq(fs, LAMBDA f : p - d <= f /\ f <= p + d)

\* np.mean(covered or [0])
mean_or_zero(covered) ==
    IF covered = <<>> THEN 0 ELSE SeqSum(covered) \div Len(covered)

find_optimal_center_frequency(fs_in, md, mandatory) ==
    LET fs == positive_frequencies(fs_in)
    IN
    IF fs = <<>> THEN Returned(0)
    ELSE
    LET f_max == MaxOf(Range(fs))
        f_min == MinOf(Range(fs))
    IN
    \* case 1: all frequencies can be covered by the max_diff
    IF fits_one_window(f_max, f_min, md) THEN Returned((f_max + f_min) \div 2)
    ELSE
    \* case 2: find the frequency which covers the most frequencies
    LET d == md \div 2
    IN
    IF mandatory.given /\ mandatory.list = <<>>
    THEN Raised("min() arg is an empty sequence")
    ELSE IF mandatory.given
            /\ MaxOf(Range(mandatory.list)) - MinOf(Range(mandatory.list)) > md
    THEN Raised("Mandatory frequencies cannot be covered.")
    ELSE
    LET search_points ==
            IF mandatory.given
            THEN <<MaxOf(Range(mandatory.list)) - d, MinOf(Range(mandatory.list)) + d>>
            ELSE [i \in 1..Len(fs) |-> fs[i] - d] \o [i \in 1..Len(fs) |-> fs[i] + d]
        counts == [k \in DOMAIN search_points |->
                      Len(covered_frequencies(fs, search_points[k], d))]
        means  == [k \in DOMAIN search_points |->
                      mean_or_zero(covered_frequencies(fs, search_points[k], d))]
    IN  Returned(means[FirstMax(counts)])

(***************************************************************************)
(* _calc_cr_target_frequency: a float in GHz                               *)
(***************************************************************************)
CrMaxDiff == 250        \* max_diff: float = 0.25 (GHz)

\* without the `if not frequencies: return qubit.ge_frequency` fallback
calc_cr_target_frequency_NoFallback(q, specs) ==
    LET fs == [i \in DOMAIN positive_frequencies(specs) |->
                  Float(positive_frequencies(specs)[i])]
    IN  find_optimal_center_frequency(fs, Float(CrMaxDiff), None).value

\* with the qubit's own GE frequency put among the spectators' frequencies
calc_cr_target_frequency_WithOwnGe(q, specs) ==
    LET fs == [i \in DOMAIN positive_frequencies(specs) |->
                  Float(positive_frequencies(specs)[i])]
    IN  IF fs = <<>> THEN Float(q.ge_frequency)
        ELSE find_optimal_center_frequency(<<Float(q.ge_frequency)>> \o fs,
                                           Float(CrMaxDiff), None).value

calc_cr_target_frequency(q, specs) ==
    LET fs == [i \in DOMAIN positive_frequencies(specs) |->
                  Float(positive_frequencies(specs)[i])]
    IN  IF fs = <<>> THEN Float(q.ge_frequency)
        ELSE find_optimal_center_frequency(fs, Float(CrMaxDiff), None).value

(***************************************************************************)
(* find_control_lo_nco                                                     *)
(***************************************************************************)
ControlDefaults ==
    [mandatory |-> None,
     lo_min |-> MHz(8000), lo_max |-> MHz(11000), lo_step |-> MHz(500),
     nco_step |-> 375, cnco |-> MHz(2250), fnco_min |-> -12000, fnco_max |-> 12000,
     max_diff |-> MHz(1500)]

\* the dict f: the three target frequencies in hertz
control_frequencies(q, specs) ==
    [ge |-> GHzToHz(Float(q.ge_frequency)),
     ef |-> GHzToHz(Float(q.ef_frequency)),
     CR |-> GHzToHz(calc_cr_target_frequency(q, specs))]

\* f_target when one channel is planned like three
control_f_target_AlwaysCenter(q, specs, n, kw) ==
    LET f == control_frequencies(q, specs)
    IN
    IF n = 1 \/ n = 3 THEN
        LET pos == positive_frequencies(specs)
            f_spectators == [i \in DOMAIN pos |-> GHzToHz(Float(pos[i]))]
            mandatory == IF kw.mandatory = None THEN <<"ge">> ELSE kw.mandatory.list
            mandatory_freqs == [i \in DOMAIN mandatory |-> f[mandatory[i]]]
        IN  find_optimal_center_frequency(mandatory_freqs \o f_spectators,
                                          Float(kw.max_diff), Some(mandatory_freqs))
    ELSE Raised("Invalid number of channels: ")

\* f_target when `n_channels == 3` is written `n_channels >= 3`
control_f_target_AtLeastThree(q, specs, n, kw) ==
    LET f == control_frequencies(q, specs)
    IN
    IF n = 1 THEN Returned(f.ge)
    ELSE IF n >= 3 THEN
        LET pos == positive_frequencies(specs)
            f_spectators == [i \in DOMAIN pos |-> GHzToHz(Float(pos[i]))]
            mandatory == IF kw.mandatory = None THEN <<"ge">> ELSE kw.mandatory.list
            mandatory_freqs == [i \in DOMAIN mandatory |-> f[mandatory[i]]]
        IN  find_optimal_center_frequency(mandatory_freqs \o f_spectators,
                                          Float(kw.max_diff), Some(mandatory_freqs))
    ELSE Raised("Invalid number of channels: ")

\* f_target, or the error raised while choosing it
control_f_target(q, specs, n, kw) ==
    LET f == control_frequencies(q, specs)
    IN
    IF n = 1 THEN Returned(f.ge)
    ELSE IF n = 3 THEN
        LET pos == positive_frequencies(specs)
            f_spectators == [i \in DOMAIN pos |-> GHzToHz(Float(pos[i]))]
            mandatory == IF kw.mandatory = None THEN <<"ge">> ELSE kw.mandatory.list
            mandatory_freqs == [i \in DOMAIN mandatory |-> f[mandatory[i]]]
        IN  find_optimal_center_frequency(mandatory_freqs \o f_spectators,
                                          Float(kw.max_diff), Some(mandatory_freqs))
    ELSE Raised("Invalid number of channels: ")

\* the LO loop over range(lo_min, lo_max + 1, lo_step)
find_lo(f_target, kw) ==
    LET los   == PyRange(kw.lo_min, kw.lo_max, kw.lo_step)
        diffs == [k \in DOMAIN los |-> Abs(Float(los[k] - kw.cnco) - f_target)]
        best  == FirstMin(diffs)
    IN  IF best = 0 THEN Raised("No valid lo value found for: ") ELSE Returned(los[best])

\* current_value with the fnco added as on an upper sideband
control_current_value_Upper(best_lo, cnco, fnco) == Abs(best_lo - cnco + fnco)

\* current_value = abs(best_lo - cnco - fnco)
control_current_value(best_lo, cnco, fnco) == Abs(best_lo - cnco - fnco)

\* the nested function find_fnco
find_fnco(target_frequency, best_lo, kw) ==
    LET fncos == PyRange(kw.fnco_min, kw.fnco_max, kw.nco_step)
        diffs == [k \in DOMAIN fncos |->
                     Abs(Float(control_current_value(best_lo, kw.cnco, fncos[k]))
                         - target_frequency)]
        best  == FirstMin(diffs)
    IN  IF best = 0 THEN Raised("No valid fnco value found for: ")
        ELSE Returned(fncos[best])

find_control_lo_nco(q, specs, n, kw) ==
    LET f  == control_frequencies(q, specs)
        ft == control_f_target(q, specs, n, kw)
    IN
    IF ft.status # "ok" THEN ft
    ELSE
    LET lo == find_lo(ft.value, kw)
    IN
    IF lo.status # "ok" THEN lo
    ELSE
    LET best_lo == lo.value
        fnco_ge == find_fnco(f.ge, best_lo, kw)
    IN
    IF fnco_ge.status # "ok" THEN fnco_ge
    ELSE IF n = 1
    THEN [status |-> "ok", lo |-> best_lo, cnco |-> kw.cnco,
          fnco |-> <<fnco_ge.value, 0, 0>>]
    ELSE [status |-> "ok", lo |-> best_lo, cnco |-> kw.cnco,
          fnco |-> <<fnco_ge.value, find_fnco(f.ef, best_lo, kw).value,
                     find_fnco(f.CR, best_lo, kw).value>>]

(***************************************************************************)
(* Target labels (src/src/qubex/backend/target.py).  A label is a sequence *)
(* of characters.  The regular expressions are modelled by what re.match   *)
(* does with them: `\d+` is greedy, `$` matches at the end of the string   *)
(* and also just before a newline that ends the string.                    *)
(***************************************************************************)
Digits == {"0", "1", "2", "3", "4", "5", "6", "7", "8", "9"}

Letters ==
    {"a", "b", "c", "d", "e", "f", "g", "h", "i", "j", "k", "l", "m",
     "n", "o", "p", "q", "r", "s", "t", "u", "v", "w", "x", "y", "z",
     "A", "B", "C", "D", "E", "F", "G", "H", "I", "J", "K", "L", "M",
     "N", "O", "P", "Q", "R", "S", "T", "U", "V", "W", "X", "Y", "Z"}

\* the first position from i on that `\d+` does not take
RECURSIVE DigitsFrom(_, _)
DigitsFrom(s, i) ==
    IF i <= Len(s) /\ s[i] \in Digits THEN DigitsFrom(s, i + 1) ELSE i

\* the first position from i on that `[a-zA-Z0-9]+` does not take
RECURSIVE AlnumFrom(_, _)
AlnumFrom(s, i) ==
    IF i <= Len(s) /\ s[i] \in (Letters \cup Digits) THEN AlnumFrom(s, i + 1) ELSE i

\* the length of what `^(Q\d+)` takes of s, 0 when it does not match
QubitPrefixLen(s) ==
    IF Len(s) >= 2 /\ s[1] = "Q" /\ s[2] \in Digits THEN DigitsFrom(s, 2) - 1 ELSE 0

\* `$` at position i, written as if it were `\Z`
AtEnd_Strict(s, i) == i = Len(s) + 1

\* `$` at position i: the end of the string, or the newline that ends it
AtEnd(s, i) == i = Len(s) + 1 \/ (i = Len(s) /\ s[i] = "\n")

\* ^R(Q\d+)$ returning match.group(0)
match_read_WholeMatch(s) ==
    IF s # <<>> /\ s[1] = "R"
       /\ QubitPrefixLen(Tail(s)) > 0 /\ AtEnd(Tail(s), QubitPrefixLen(Tail(s)) + 1)
    THEN Found(SubSeq(s, 1, QubitPrefixLen(Tail(s)) + 1))
    ELSE NotFound

\* ^R(Q\d+)$
match_read(s) ==
    IF s # <<>> /\ s[1] = "R"
       /\ QubitPrefixLen(Tail(s)) > 0 /\ AtEnd(Tail(s), QubitPrefixLen(Tail(s)) + 1)
    THEN Found(SubSeq(Tail(s), 1, QubitPrefixLen(Tail(s))))
    ELSE NotFound

\* ^(Q\d+)$
match_qubit(s) ==
    IF QubitPrefixLen(s) > 0 /\ AtEnd(s, QubitPrefixLen(s) + 1)
    THEN Found(SubSeq(s, 1, QubitPrefixLen(s)))
    ELSE NotFound

\* ^(Q\d+)<suffix>$ for the literal suffixes -ef and -CR
match_suffix(s, suffix) ==
    LET n == QubitPrefixLen(s)
    IN  IF n > 0 /\ Len(s) >= n + Len(suffix)
           /\ SubSeq(s, n + 1, n + Len(suffix)) = suffix
           /\ AtEnd(s, n + Len(suffix) + 1)
        THEN Found(SubSeq(s, 1, n))
        ELSE NotFound

\* ^(Q\d+)-(Q\d+)$
match_pair(s) ==
    LET n == QubitPrefixLen(s)
        t == SubSeq(s, n + 2, Len(s))
    IN  IF n > 0 /\ Len(s) > n /\ s[n + 1] = "-"
           /\ QubitPrefixLen(t) > 0 /\ AtEnd(t, QubitPrefixLen(t) + 1)
        THEN Found(SubSeq(s, 1, n))
        ELSE NotFound

\* ^(Q\d+)(-|_)[a-zA-Z0-9]+$
match_generic(s) ==
    LET n == QubitPrefixLen(s)
    IN  IF n > 0 /\ Len(s) > n /\ s[n + 1] \in {"-", "_"}
           /\ AlnumFrom(s, n + 2) > n + 2 /\ AtEnd(s, AlnumFrom(s, n + 2))
        THEN Found(SubSeq(s, 1, n))
        ELSE NotFound

RaisedInvalidLabel == Raised("Invalid target label")

\* Target.qubit_label: the if/elif chain over the six patterns
qubit_label(label) ==
    IF match_read(label).found THEN Returned(match_read(label).value)
    ELSE IF match_qubit(label).found THEN Returned(match_qubit(label).value)
    ELSE IF match_suffix(label, <<"-", "e", "f">>).found
         THEN Returned(match_suffix(label, <<"-", "e", "f">>).value)
    ELSE IF match_suffix(label, <<"-", "C", "R">>).found
         THEN Returned(match_suffix(label, <<"-", "C", "R">>).value)
    ELSE IF match_pair(label).found THEN Returned(match_pair(label).value)
    ELSE IF match_generic(label).found THEN Returned(match_generic(label).value)
    ELSE RaisedInvalidLabel

\* f"{qubit}", f"{qubit}-ef", f"{qubit}-CR", f"R{qubit}" of qubit_label(label)
formatted(q, prefix, suffix) ==
    IF q.status # "ok" THEN q ELSE Returned(prefix \o q.value \o suffix)

ge_label(label) == formatted(qubit_label(label), <<>>, <<>>)

ef_label(label) == formatted(qubit_label(label), <<>>, <<"-", "e", "f">>)

cr_label(label) == formatted(qubit_label(label), <<>>, <<"-", "C", "R">>)

read_label(label) == formatted(qubit_label(label), <<"R">>, <<>>)

(***************************************************************************)
(* Inputs of the calls.                                                    *)
(***************************************************************************)
SeqsUpTo(S, n) == UNION {[1..k -> S] : k \in 0..n}

\* resonator frequencies in MHz: below, inside and above the span the default
\* readout grids reach (9265.625 MHz .. 12734.375 MHz), the fixture 9902/9908
ResonatorFrequencies ==
    {9000, 9250, 9500, 9750, 9902, 9908, 10000, 10250, 12500, 12750, 13000}

SmallResonatorFrequencies == 0..4

\* small grids: aligned and misaligned range ends, empty ranges, ties
SmallReadoutGrids ==
    [lo_min : {16}, lo_max : {15, 16, 40, 48}, lo_step : {16, 24},
     nco_step : {4, 8}, cnco : {4}, fnco_min : {-8}, fnco_max : {-9, 4, 8}]

ReadoutInputs ==
    (SeqsUpTo(ResonatorFrequencies, MaxResonators) \X {ReadoutDefaults})
    \cup (SeqsUpTo(SmallResonatorFrequencies, MaxResonators) \X SmallReadoutGrids)

CenterFrequencies == {-5, 0, 10, 90, 100, 110, 1000}

CenterMandatory == {0, 100, 110, 1000}

CenterMaxDiffs == {10, 20}

Mandatories == {None, Some(<<>>), Some(<<"ge">>), Some(<<"ef">>), Some(<<"ge", "ef">>)}

\* qubit and spectator frequencies in MHz; 0 is "unset"
GeFrequencies == {0, 6980, 7000, 7182, 7651, 8456}

EfFrequencies == {0, 6800, 7295, 9300}

SpectatorFrequencies == {0, 7182, 8337, 8456, 9200}

DefaultControlInputs ==
    [ge_frequency : GeFrequencies, ef_frequency : EfFrequencies]
    \X SeqsUpTo(SpectatorFrequencies, MaxSpectators)
    \X {[ControlDefaults EXCEPT !.mandatory = m] : m \in Mandatories}

SmallControlGrids ==
    [mandatory : Mandatories,
     lo_min : {16}, lo_max : {15, 48}, lo_step : {16},
     nco_step : {8, 16}, cnco : {8}, fnco_min : {-16}, fnco_max : {-17, 16},
     max_diff : {16, 64}]

SmallControlInputs ==
    [ge_frequency : 0..3, ef_frequency : {0, 2}]
    \X SeqsUpTo({0, 1, 3}, MaxSpectators)
    \X SmallControlGrids

ControlInputs == DefaultControlInputs \cup SmallControlInputs

\* the pieces labels are made of: qubit names, the prefix and the suffixes of the
\* grammar, and characters the grammar has no place for
LabelParts ==
    {<<"Q">>, <<"R">>, <<"0">>, <<"1">>, <<"Q", "0">>, <<"Q", "1", "1">>, <<"-">>, <<"_">>,
     <<"e", "f">>, <<"C", "R">>, <<"a">>, <<".">>, <<"\n">>}

RECURSIVE Join(_)
Join(parts) == IF parts = <<>> THEN <<>> ELSE Head(parts) \o Join(Tail(parts))

Labels == {Join(parts) : parts \in SeqsUpTo(LabelParts, MaxLabelParts)}

ChannelCounts == 0..4

(***************************************************************************)
(* The calls as actions.                                                   *)
(***************************************************************************)
Unused == <<>>

\* no ExperimentSystem is under construction
NoFacade ==
    /\ quantum_system = Unused /\ control_system = Unused /\ wiring_info = Unused
    /\ control_params = Unused /\ qubit_port_set_map = Unused /\ next_port = 0
    /\ targets = Unused /\ first_system = Unused /\ pending = Unused

\* no label method and no lookup is being called
NoLookup == given_label = Unused /\ qubits = Unused

\* a caller about to call find_readout_lo_nco(mux, **kwargs)
InitReadout ==
    /\ pc = "ready"
    /\ \E in \in ReadoutInputs : mux = in[1] /\ kwargs = in[2]
    /\ qubit = Unused /\ spectators = Unused /\ n_channels = 0
    /\ frequencies = Unused /\ max_diff = 0 /\ mandatory_frequencies = None
    /\ NoFacade /\ NoLookup
    /\ result = NoResult

CallFindReadoutLoNco ==
    /\ pc = "ready"
    /\ result' = find_readout_lo_nco(mux, kwargs)
    /\ pc' = "done"
    /\ UNCHANGED <<callVars, lookupVars, facadeVars>>

SpecReadout == InitReadout /\ [][CallFindReadoutLoNco]_vars

\* a caller about to call find_optimal_center_frequency(frequencies, max_diff,
\* mandatory_frequencies=...)
InitCenter ==
    /\ pc = "ready"
    /\ frequencies \in SeqsUpTo(CenterFrequencies, MaxFrequencies)
                       \cup [1..(MaxFrequencies + 1) -> {90, 100, 1000}]
    /\ max_diff \in CenterMaxDiffs
    /\ mandatory_frequencies \in
           {None} \cup {Some(l) : l \in SeqsUpTo(CenterMandatory, MaxMandatory)}
    /\ mux = Unused /\ qubit = Unused /\ spectators = Unused /\ n_channels = 0
    /\ kwargs = Unused
    /\ NoFacade /\ NoLookup
    /\ result = NoResult

Floats(s) == [i \in DOMAIN s |-> Float(s[i])]

CallFindOptimalCenterFrequency ==
    /\ pc = "ready"
    /\ result' = find_optimal_center_frequency(
                     Floats(frequencies), Float(max_diff),
                     IF mandatory_frequencies = None THEN None
                     ELSE Some(Floats(mandatory_frequencies.list)))
    /\ pc' = "done"
    /\ UNCHANGED <<callVars, lookupVars, facadeVars>>

SpecCenter == InitCenter /\ [][CallFindOptimalCenterFrequency]_vars

\* a caller about to call find_control_lo_nco(qubit, n_channels, **kwargs)
InitControl ==
    /\ pc = "ready"
    /\ \E in \in ControlInputs : qubit = in[1] /\ spectators = in[2] /\ kwargs = in[3]
    /\ n_channels \in ChannelCounts
    /\ mux = Unused /\ frequencies = Unused /\ max_diff = 0
    /\ mandatory_frequencies = None
    /\ NoFacade /\ NoLookup
    /\ result = NoResult

CallFindControlLoNco ==
    /\ pc = "ready"
    /\ result' = find_control_lo_nco(qubit, spectators, n_channels, kwargs)
    /\ pc' = "done"
    /\ UNCHANGED <<callVars, lookupVars, facadeVars>>

SpecControl == InitControl /\ [][CallFindControlLoNco]_vars

\* a caller about to call _calc_cr_target_frequency(qubit)
InitCr ==
    /\ pc = "ready"
    /\ qubit \in [ge_frequency : GeFrequencies, ef_frequency : EfFrequencies]
    /\ spectators \in SeqsUpTo(SpectatorFrequencies, MaxSpectators)
    /\ n_channels = 0 /\ kwargs = Unused
    /\ mux = Unused /\ frequencies = Unused /\ max_diff = 0
    /\ mandatory_frequencies = None
    /\ NoFacade /\ NoLookup
    /\ result = NoResult

CallCalcCrTargetFrequency ==
    /\ pc = "ready"
    /\ result' = Returned(calc_cr_target_frequency(qubit, spectators))
    /\ pc' = "done"
    /\ UNCHANGED <<callVars, lookupVars, facadeVars>>

SpecCr == InitCr /\ [][CallCalcCrTargetFrequency]_vars

\* a caller about to call a class method of Target with a label
InitLabel ==
    /\ pc = "ready"
    /\ given_label \in Labels
    /\ qubits = Unused
    /\ mux = Unused /\ qubit = Unused /\ spectators = Unused /\ n_channels = 0
    /\ kwargs = Unused /\ frequencies = Unused /\ max_diff = 0
    /\ mandatory_frequencies = None
    /\ NoFacade
    /\ result = NoResult

CallQubitLabel ==
    /\ pc = "ready"
    /\ result' = qubit_label(given_label)
    /\ pc' = "qubit_label"
    /\ UNCHANGED <<callVars, lookupVars, facadeVars>>

CallGeLabel ==
    /\ pc = "ready"
    /\ result' = ge_label(given_label)
    /\ pc' = "ge_label"
    /\ UNCHANGED <<callVars, lookupVars, facadeVars>>

CallEfLabel ==
    /\ pc = "ready"
    /\ result' = ef_label(given_label)
    /\ pc' = "ef_label"
    /\ UNCHANGED <<callVars, lookupVars, facadeVars>>

CallCrLabel ==
    /\ pc = "ready"
    /\ result' = cr_label(given_label)
    /\ pc' = "cr_label"
    /\ UNCHANGED <<callVars, lookupVars, facadeVars>>

CallReadLabel ==
    /\ pc = "ready"
    /\ result' = read_label(given_label)
    /\ pc' = "read_label"
    /\ UNCHANGED <<callVars, lookupVars, facadeVars>>

\* the position after qubit_label has been called with the label produced
Parsed == [ge_label |-> "qubit_label(ge_label)", ef_label |-> "qubit_label(ef_label)",
           cr_label |-> "qubit_label(cr_label)", read_label |-> "qubit_label(read_label)"]

\* qubit_label called with the label one of the four methods produced
CallQubitLabelOfProduced ==
    /\ pc \in DOMAIN Parsed
    /\ result.status = "ok"
    /\ result' = qubit_label(result.value)
    /\ pc' = Parsed[pc]
    /\ UNCHANGED <<callVars, lookupVars, facadeVars>>

NextLabel ==
    \/ CallQubitLabel \/ CallGeLabel \/ CallEfLabel \/ CallCrLabel \/ CallReadLabel
    \/ CallQubitLabelOfProduced

SpecLabel == InitLabel /\ [][NextLabel]_vars

(***************************************************************************)
(* Properties of find_readout_lo_nco (SpecReadout).                        *)
(***************************************************************************)
\* the points of a grid declared by (first, last, step), both ends eligible
GridPoints(first, last, step) ==
    {first + k * step : k \in 0..((last - first) \div step)}

LoGrid(kw) == GridPoints(kw.lo_min, kw.lo_max, kw.lo_step)

FncoGrid(kw) == GridPoints(kw.fnco_min, kw.fnco_max, kw.nco_step)

\* twice the midpoint of the resonator frequencies, in hertz
ReadoutTarget2(m) == GHzToHz(MaxOf(Range(m))) + GHzToHz(MinOf(Range(m)))

\* twice |lo + cnco + fnco - target|
ReadoutDistance2(m, kw, lo, fnco) == Abs(2 * (lo + kw.cnco + fnco) - ReadoutTarget2(m))

ReadoutCalled == pc = "done" /\ mux # <<>>

\* C1: for a mux with at least one resonator and non-empty grids the call
\* returns lo on the LO grid, fnco on the FNCO grid (a range end that is a grid
\* point is a candidate like any other), cnco unchanged, at a distance from the
\* midpoint target no larger than that of any other grid pair; among pairs at
\* the same minimal distance it is the first in the order lo ascending, then
\* fnco ascending.
C1_ReadoutNearestFirst ==
    (ReadoutCalled /\ LoGrid(kwargs) # {} /\ FncoGrid(kwargs) # {}) =>
        /\ result.status = "ok"
        /\ result.lo \in LoGrid(kwargs)
        /\ result.fnco \in FncoGrid(kwargs)
        /\ result.cnco = kwargs.cnco
        /\ \A lo \in LoGrid(kwargs), fnco \in FncoGrid(kwargs) :
              LET mine  == ReadoutDistance2(mux, kwargs, result.lo, result.fnco)
                  other == ReadoutDistance2(mux, kwargs, lo, fnco)
              IN  /\ mine <= other
                  /\ mine = other =>
                        \/ result.lo < lo
                        \/ result.lo = lo /\ result.fnco <= fnco

\* a call in which another grid pair is exactly as near as the returned one
C1_Witness ==
    /\ ReadoutCalled /\ result.status = "ok"
    /\ \E lo \in LoGrid(kwargs), fnco \in FncoGrid(kwargs) :
          /\ <<lo, fnco>> # <<result.lo, result.fnco>>
          /\ ReadoutDistance2(mux, kwargs, lo, fnco)
                 = ReadoutDistance2(mux, kwargs, result.lo, result.fnco)

\* the default grids, as the signature of find_readout_lo_nco declares them
IsReadoutDefaultGrid(kw) ==
    /\ kw.lo_min = MHz(8000) /\ kw.lo_max = MHz(11000) /\ kw.lo_step = MHz(500)
    /\ kw.nco_step = 375 /\ kw.fnco_min = -3750 /\ kw.fnco_max = 3750
    /\ kw.cnco = MHz(1500)

\* |lo + cnco + fnco - target| <= nco_step/2 + lo_step/2, doubled
WithinQuantizationBound ==
    /\ result.status = "ok"
    /\ ReadoutDistance2(mux, kwargs, result.lo, result.fnco)
           <= kwargs.nco_step + kwargs.lo_step

\* the midpoint target lies in the span the grids reach,
\* lo_min + cnco + fnco_min .. lo_max + cnco + fnco_max
TargetInReadoutSpan ==
    /\ 2 * (kwargs.lo_min + kwargs.cnco + kwargs.fnco_min) <= ReadoutTarget2(mux)
    /\ ReadoutTarget2(mux) <= 2 * (kwargs.lo_max + kwargs.cnco + kwargs.fnco_max)

\* C2 as stated: with the default grids the value chosen for every mux is
\* within nco_step/2 + lo_step/2 of the midpoint target.
C2_QuantizationBoundEveryMux ==
    (ReadoutCalled /\ IsReadoutDefaultGrid(kwargs)) => WithinQuantizationBound

\* C2: with the default grids, for every mux whose midpoint target lies in the
\* span reached by the grids, the value chosen is within nco_step/2 + lo_step/2
\* of the target.
C2_QuantizationBoundInSpan ==
    (ReadoutCalled /\ IsReadoutDefaultGrid(kwargs) /\ TargetInReadoutSpan)
        => WithinQuantizationBound

\* a target inside the span, in the gap between the bands of two LO values:
\* farther than nco_step/2 from every grid value
C2_Witness ==
    /\ ReadoutCalled /\ IsReadoutDefaultGrid(kwargs) /\ TargetInReadoutSpan
    /\ result.status = "ok"
    /\ ReadoutDistance2(mux, kwargs, result.lo, result.fnco) > kwargs.nco_step

\* C3: resonators at 9902.0 MHz and 9908.0 MHz, default grids: the target is
\* 9_905_000_000 Hz and the call returns (8_500_000_000, 1_500_000_000,
\* -93_750_000), -93_750_000 Hz being -1500 units of 62.5 kHz.
C3_ReadoutFixture ==
    (pc = "done" /\ Range(mux) = {9902, 9908} /\ kwargs = ReadoutDefaults) =>
        /\ ReadoutTarget2(mux) = 2 * MHz(9905)
        /\ result = [status |-> "ok", lo |-> MHz(8500), cnco |-> MHz(1500),
                     fnco |-> -1500]

C3_Witness ==
    /\ pc = "done" /\ mux = <<9902, 9908>> /\ kwargs = ReadoutDefaults
    /\ result.status = "ok"

(***************************************************************************)
(* Properties of find_control_lo_nco (SpecControl).                        *)
(***************************************************************************)
ControlReturned == pc = "done" /\ result.status = "ok"

\* |lo - cnco - f_target|, a float
LoDistance(lo, f_target) == Abs(Float(lo - kwargs.cnco) - f_target)

\* | |best_lo - cnco - fnco| - f |, a float
FncoDistance(best_lo, fnco, f) == Abs(Float(Abs(best_lo - kwargs.cnco - fnco)) - f)

\* lo is the LO-grid point nearest to f_target, the lowest of the nearest
IsNearestLo(lo, f_target) ==
    /\ lo \in LoGrid(kwargs)
    /\ \A other \in LoGrid(kwargs) :
          /\ LoDistance(lo, f_target) <= LoDistance(other, f_target)
          /\ LoDistance(lo, f_target) = LoDistance(other, f_target) => lo <= other

\* fnco is the FNCO-grid point whose synthesized value is nearest to f, the
\* lowest of the nearest
IsNearestFnco(fnco, best_lo, f) ==
    /\ fnco \in FncoGrid(kwargs)
    /\ \A other \in FncoGrid(kwargs) :
          /\ FncoDistance(best_lo, fnco, f) <= FncoDistance(best_lo, other, f)
          /\ FncoDistance(best_lo, fnco, f) = FncoDistance(best_lo, other, f)
                 => fnco <= other

\* C4: the returned lo is the LO-grid point minimizing |lo - cnco - f_target|,
\* lowest lo on ties; the returned fnco of each needed frequency f (GE, and for
\* three channels EF and CR) is the FNCO-grid point minimizing
\* | |best_lo - cnco - fnco| - f |, lowest fnco on ties, a function of the one
\* chosen best_lo and of f alone.
C4_ControlSearch ==
    ControlReturned =>
        LET f  == control_frequencies(qubit, spectators)
            ft == control_f_target(qubit, spectators, n_channels, kwargs).value
        IN  /\ result.cnco = kwargs.cnco
            /\ IsNearestLo(result.lo, ft)
            /\ IsNearestFnco(result.fnco[1], result.lo, f.ge)
            /\ n_channels = 3 =>
                  /\ IsNearestFnco(result.fnco[2], result.lo, f.ef)
                  /\ IsNearestFnco(result.fnco[3], result.lo, f.CR)

\* a three-channel call with two LO values equally near the shared target and
\* an FNCO tie on the EF channel
C4_Witness ==
    /\ ControlReturned /\ n_channels = 3
    /\ \E other \in LoGrid(kwargs) :
          /\ other # result.lo
          /\ LET ft == control_f_target(qubit, spectators, n_channels, kwargs).value
             IN  LoDistance(other, ft) = LoDistance(result.lo, ft)
    /\ result.fnco[2] # result.fnco[1]
    /\ \E other \in FncoGrid(kwargs) :
          /\ other # result.fnco[2]
          /\ LET f == control_frequencies(qubit, spectators)
             IN  FncoDistance(result.lo, other, f.ef)
                     = FncoDistance(result.lo, result.fnco[2], f.ef)

\* the qubit's GE frequency in hertz, a float
GeHz == Float(GHzToHz(qubit.ge_frequency))

HasPositiveSpectator == \E i \in DOMAIN spectators : spectators[i] > 0

\* C5: with n_channels = 1 the LO search target is the qubit's GE frequency
\* alone, whatever the spectators and `mandatory` are: the call fails only on
\* an empty grid, lo is the grid point nearest to GE, and fnco_ef = fnco_cr = 0.
C5_OneChannel ==
    (pc = "done" /\ n_channels = 1) =>
        /\ control_f_target(qubit, spectators, n_channels, kwargs) = Returned(GeHz)
        /\ (LoGrid(kwargs) # {} /\ FncoGrid(kwargs) # {}) => result.status = "ok"
        /\ result.status = "ok" =>
              /\ IsNearestLo(result.lo, GeHz)
              /\ result.fnco[2] = 0
              /\ result.fnco[3] = 0

\* a one-channel call for a qubit whose spectators and `mandatory` make the
\* three-channel call choose another lo
C5_Witness ==
    /\ ControlReturned /\ n_channels = 1
    /\ HasPositiveSpectator /\ kwargs.mandatory.given
    /\ LET three == find_control_lo_nco(qubit, spectators, 3, kwargs)
       IN  three.status = "ok" /\ three.lo # result.lo

\* a direct call with n_channels other than 1 or 3 raises and returns no plan
InvalidCallRaises ==
    (pc = "done" /\ n_channels \notin {1, 3}) =>
        result = Raised("Invalid number of channels: ")

\* what C7 says of a three-channel call without a spectator of positive GE
SameAsOneChannel ==
    LET one == find_control_lo_nco(qubit, spectators, 1, kwargs)
    IN  /\ control_f_target(qubit, spectators, n_channels, kwargs) = Returned(GeHz)
        /\ result.status = one.status
        /\ result.status = "ok" =>
              /\ result.lo = one.lo
              /\ result.cnco = one.cnco
              /\ result.fnco[1] = one.fnco[1]
              /\ result.fnco[3] = result.fnco[1]

\* C7 as stated: for every three-channel call without a spectator of positive
\* GE the shared target is GE alone, lo, cnco and fnco_ge are those of the
\* one-channel call and fnco_cr = fnco_ge.
C7_NoSpectatorsAnyMandatory ==
    (pc = "done" /\ n_channels = 3 /\ ~HasPositiveSpectator) => SameAsOneChannel

\* `mandatory` left at its default, or naming ge alone
MandatoryIsGe == kwargs.mandatory \in {None, Some(<<"ge">>)}

\* C7: for a three-channel call without a spectator of positive GE and with
\* `mandatory` left at its default (or naming ge alone), the shared target is
\* GE alone, lo, cnco and fnco_ge are those of the one-channel call and
\* fnco_cr = fnco_ge.
C7_NoSpectatorsDefaultMandatory ==
    (pc = "done" /\ n_channels = 3 /\ ~HasPositiveSpectator /\ MandatoryIsGe)
        => SameAsOneChannel

\* such a call with an unset spectator present and an EF channel that differs
C7_Witness ==
    /\ ControlReturned /\ n_channels = 3 /\ ~HasPositiveSpectator /\ MandatoryIsGe
    /\ spectators # <<>>
    /\ qubit.ge_frequency > 0
    /\ result.fnco[2] # result.fnco[1]

(***************************************************************************)
(* Properties of find_optimal_center_frequency (SpecCenter).               *)
(***************************************************************************)
CenterCalled == pc = "done"

\* the positive entries of `frequencies`
PositiveEntries == {frequencies[i] : i \in {j \in DOMAIN frequencies : frequencies[j] > 0}}

\* the value returned is the exact rational num / den
ReturnedRational(num, den) == result.status = "ok" /\ result.value * den = Float(num)

\* C8: non-positive frequencies are dropped first; if nothing remains the
\* result is 0.0; otherwise, if max - min of the remaining ones is <= max_diff
\* (boundary included), the result is exactly (max + min) / 2, whether or not
\* mandatory frequencies are supplied.
C8_SingleWindow ==
    CenterCalled =>
        /\ PositiveEntries = {} => ReturnedRational(0, 1)
        /\ (/\ PositiveEntries # {}
            /\ MaxOf(PositiveEntries) - MinOf(PositiveEntries) <= max_diff)
              => ReturnedRational(MaxOf(PositiveEntries) + MinOf(PositiveEntries), 2)

\* three frequencies, one of them unset, the others exactly max_diff apart,
\* and mandatory frequencies that do not fit one window
C8_Witness ==
    /\ CenterCalled /\ result.status = "ok"
    /\ Len(frequencies) = 3
    /\ \E i \in DOMAIN frequencies : frequencies[i] <= 0
    /\ PositiveEntries # {}
    /\ MaxOf(PositiveEntries) - MinOf(PositiveEntries) = max_diff
    /\ mandatory_frequencies.given /\ mandatory_frequencies.list # <<>>
    /\ MaxOf(Range(mandatory_frequencies.list))
           - MinOf(Range(mandatory_frequencies.list)) > max_diff

\* a call of the two fixtures' shape: no mandatory frequencies, max_diff = 10
FixtureCall(fs) ==
    /\ CenterCalled /\ frequencies = fs /\ max_diff = 10
    /\ mandatory_frequencies = None

\* C9 as stated: ({90, 110}, max_diff = 10) returns 100.0 and
\* ({100, 100}, max_diff = 10) returns 100.0.
C9_BothReturn100 ==
    /\ FixtureCall(<<90, 110>>) => ReturnedRational(100, 1)
    /\ FixtureCall(<<100, 100>>) => ReturnedRational(100, 1)

\* C9: ([90, 110], max_diff = 10) returns 90.0: the spread 20 exceeds
\* max_diff, so the first probe with the largest count decides, and it covers
\* 90 alone; ([100, 100], max_diff = 10) returns 100.0; [90, 110] returns 100.0
\* once max_diff is 20.
C9_Returns90And100 ==
    /\ FixtureCall(<<90, 110>>) => ReturnedRational(90, 1)
    /\ FixtureCall(<<100, 100>>) => ReturnedRational(100, 1)
    /\ (/\ CenterCalled /\ frequencies = <<90, 110>> /\ max_diff = 20
        /\ mandatory_frequencies = None) => ReturnedRational(100, 1)

C9_Witness == FixtureCall(<<90, 110>>) /\ result.status = "ok"

RECURSIVE SumAt(_, _)
SumAt(s, I) ==
    IF I = {} THEN 0
    ELSE LET i == CHOOSE j \in I : TRUE IN s[i] + SumAt(s, I \ {i})

\* the value returned is the mean of some of the positive entries
IsMeanOfPositiveEntries ==
    \E I \in SUBSET {j \in DOMAIN frequencies : frequencies[j] > 0} :
        I # {} /\ ReturnedRational(SumAt(frequencies, I), Cardinality(I))

\* C10: a non-positive entry of `frequencies` never contributes: the call
\* gives what it gives on the list without its non-positive entries, a value
\* returned is the mean of some positive entries (or 0.0 when there is none,
\* or when the window of no mandatory probe covers one), and for
\* {0, 10, 1000} with max_diff = 20 the result is 10 or 1000.
C10_UnsetExcluded ==
    CenterCalled =>
        /\ result = find_optimal_center_frequency(
                        Floats(SelectSeq(frequencies, LAMBDA f : f > 0)),
                        Float(max_diff),
                        IF mandatory_frequencies.given
                        THEN Some(Floats(mandatory_frequencies.list)) ELSE None)
        /\ result.status = "ok" =>
              \/ IsMeanOfPositiveEntries
              \/ /\ ReturnedRational(0, 1)
                 /\ PositiveEntries = {} \/ mandatory_frequencies.given
        /\ (/\ Range(frequencies) = {0, 10, 1000} /\ Len(frequencies) = 3
            /\ max_diff = 20 /\ mandatory_frequencies = None)
              => ReturnedRational(10, 1) \/ ReturnedRational(1000, 1)

C10_Witness ==
    /\ CenterCalled /\ frequencies = <<0, 10, 1000>> /\ max_diff = 20
    /\ mandatory_frequencies = None
    /\ ReturnedRational(10, 1)

\* the mandatory frequencies as supplied, the unset sentinel included
MandatorySpread ==
    MaxOf(Range(mandatory_frequencies.list)) - MinOf(Range(mandatory_frequencies.list))

\* C11: whenever mandatory frequencies are supplied and max(mandatory) -
\* min(mandatory) > max_diff, the mandatory values taken raw, the call raises
\* "Mandatory frequencies cannot be covered." and returns no value; so it does
\* for frequencies = {0, 1000}, max_diff = 10, mandatory = [0, 1000].
C11_UnsatisfiableMandatoryRaises ==
    (/\ CenterCalled
     /\ mandatory_frequencies.given /\ mandatory_frequencies.list # <<>>
     /\ MandatorySpread > max_diff)
        => result = Raised("Mandatory frequencies cannot be covered.")

(***************************************************************************)
(* Properties of the multi-window case (SpecCenter).                       *)
(***************************************************************************)
\* the positive entries of `frequencies`, in the order given
PositiveList == SelectSeq(frequencies, LAMBDA f : f > 0)

\* the positive entries in ascending order
PositiveAscending ==
    CHOOSE s \in [DOMAIN PositiveList -> Range(PositiveList)] :
        /\ \A v \in Range(PositiveList) :
               Cardinality({i \in DOMAIN s : s[i] = v})
                   = Cardinality({i \in DOMAIN PositiveList : PositiveList[i] = v})
        /\ \A i, j \in DOMAIN s : i < j => s[i] <= s[j]

\* the call is in the multi-window case and its mandatory frequencies, if
\* any, fit one window
MultiWindowCalled ==
    /\ CenterCalled
    /\ PositiveEntries # {}
    /\ MaxOf(PositiveEntries) - MinOf(PositiveEntries) > max_diff
    /\ mandatory_frequencies.given =>
           mandatory_frequencies.list # <<>> /\ MandatorySpread <= max_diff

HalfWidth == max_diff \div 2

\* the positions of the positive entries lying in [p - d, p + d]
CoveredBy(p) ==
    {i \in DOMAIN PositiveList :
        p - HalfWidth <= PositiveList[i] /\ PositiveList[i] <= p + HalfWidth}

MandatoryProbes ==
    <<MaxOf(Range(mandatory_frequencies.list)) - HalfWidth,
      MinOf(Range(mandatory_frequencies.list)) + HalfWidth>>

\* f - d before f + d for one frequency after another of fs
ProbesPerFrequency(fs) ==
    [k \in 1..(2 * Len(fs)) |->
        IF k % 2 = 1 THEN fs[(k + 1) \div 2] - HalfWidth ELSE fs[k \div 2] + HalfWidth]

\* f - d for every frequency of fs, then f + d for every frequency of fs
ProbesLowThenHigh(fs) ==
    [k \in 1..(2 * Len(fs)) |->
        IF k <= Len(fs) THEN fs[k] - HalfWidth ELSE fs[k - Len(fs)] + HalfWidth]

\* the value returned is the mean of the frequencies covered by the first of
\* the probes that covers the largest number of them (0.0 if it covers none)
ReturnsMeanAtFirstMax(probes) ==
    \E k \in DOMAIN probes :
        /\ \A j \in DOMAIN probes :
               /\ Cardinality(CoveredBy(probes[j])) <= Cardinality(CoveredBy(probes[k]))
               /\ j < k => Cardinality(CoveredBy(probes[j])) < Cardinality(CoveredBy(probes[k]))
        /\ IF CoveredBy(probes[k]) = {} THEN ReturnedRational(0, 1)
           ELSE ReturnedRational(SumAt(PositiveList, CoveredBy(probes[k])),
                                 Cardinality(CoveredBy(probes[k])))

\* the number of positive entries in the window of width max_diff centered at
\* the value returned
CoveredAroundResult ==
    Cardinality({i \in DOMAIN PositiveList :
                    Abs(Float(PositiveList[i]) - result.value) <= Float(HalfWidth)})

\* the largest number of positive entries a window of width max_diff covers:
\* some best window has an entry on its lower edge
BestCoverage ==
    MaxOf({Cardinality({j \in DOMAIN PositiveList :
                           /\ PositiveList[i] <= PositiveList[j]
                           /\ PositiveList[j] <= PositiveList[i] + max_diff}) :
              i \in DOMAIN PositiveList})

\* C28: without mandatory frequencies, in the multi-window case, the window of
\* width max_diff centered at the value returned covers as many of the input
\* frequencies as the best window of that width placed anywhere.
C28_ReturnedCenterCoversMost ==
    (MultiWindowCalled /\ mandatory_frequencies = None /\ result.status = "ok")
        => CoveredAroundResult >= BestCoverage

\* C23 as stated: in the multi-window case the probes are max(mandatory) - d
\* and min(mandatory) + d, in that order, when mandatory is supplied, else
\* f - d and f + d for every frequency f, the frequencies taken in ascending
\* order with f - d before f + d per frequency; the result is the mean of the
\* frequencies covered by the first probe with the largest count.
C23_ProbesAscendingPerFrequency ==
    MultiWindowCalled =>
        ReturnsMeanAtFirstMax(IF mandatory_frequencies.given THEN MandatoryProbes
                              ELSE ProbesPerFrequency(PositiveAscending))

\* C23: in the multi-window case the probes are max(mandatory) - d and
\* min(mandatory) + d, in that order, when mandatory is supplied, else f - d
\* for every positive frequency f in the order of the list given, followed by
\* f + d for every one of them in the same order; the result is the mean of
\* the frequencies covered by the first probe with the largest count.
C23_ProbesLowThenHigh ==
    MultiWindowCalled =>
        ReturnsMeanAtFirstMax(IF mandatory_frequencies.given THEN MandatoryProbes
                              ELSE ProbesLowThenHigh(PositiveList))

\* a call without mandatory frequencies in which two probes covering different
\* frequencies tie on the largest count
C23_Witness ==
    /\ MultiWindowCalled /\ result.status = "ok"
    /\ mandatory_frequencies = None
    /\ Len(PositiveList) = 3
    /\ \E j, k \in 1..Len(PositiveList) :
           /\ Cardinality(CoveredBy(PositiveList[j] - HalfWidth)) = 2
           /\ Cardinality(CoveredBy(PositiveList[k] + HalfWidth)) = 2
           /\ CoveredBy(PositiveList[j] - HalfWidth) # CoveredBy(PositiveList[k] + HalfWidth)

(***************************************************************************)

(* Properties of the GE channel of the control plan (SpecControl).         *)
(***************************************************************************)
\* the GE frequency lies in the span of the LO grid: lo_min - cnco to lo_max - cnco
GeInLoSpan ==
    /\ Float(kwargs.lo_min - kwargs.cnco) <= GeHz
    /\ GeHz <= Float(kwargs.lo_max - kwargs.cnco)

\* C27: with the default grids and the default mandatory = [ge], for a qubit
\* whose GE frequency lies in the span of the LO grid and for any spectators,
\* the plan for one channel as for three synthesizes the GE frequency to within
\* half an NCO step: | |lo - cnco - fnco_ge| - ge | <= nco_step / 2.
C27_GeReachable ==
    (/\ ControlReturned /\ kwargs = ControlDefaults /\ n_channels \in {1, 3}
     /\ GeInLoSpan)
        => 2 * FncoDistance(result.lo, result.fnco[1], GeHz) <= Float(kwargs.nco_step)

(***************************************************************************)

(* Properties of _calc_cr_target_frequency (SpecCr).                       *)
(***************************************************************************)
\* the positions of the spectators with a positive GE frequency
PositiveSpectators == {i \in DOMAIN spectators : spectators[i] > 0}

\* the k-th of them, in the order of the spectators
RECURSIVE NthPositiveSpectator(_)
NthPositiveSpectator(k) ==
    IF k = 1 THEN MinOf(PositiveSpectators)
    ELSE MinOf({i \in PositiveSpectators : i > NthPositiveSpectator(k - 1)})

PositiveSpectatorFrequencies ==
    [k \in 1..Cardinality(PositiveSpectators) |->
        Float(spectators[NthPositiveSpectator(k)])]

\* C12: _calc_cr_target_frequency returns the qubit's own GE frequency when no
\* spectator has a positive GE frequency; otherwise it returns what
\* find_optimal_center_frequency gives for exactly the spectators' positive GE
\* frequencies with max_diff = 0.25 GHz and no mandatory subset: the own GE is
\* not among them, so spectators within 0.25 GHz give their midpoint.
C12_CrTargetFrequency ==
    pc = "done" =>
        /\ PositiveSpectators = {} => result = Returned(Float(qubit.ge_frequency))
        /\ PositiveSpectators # {} =>
              LET S == {spectators[i] : i \in PositiveSpectators}
              IN  /\ result = find_optimal_center_frequency(
                                  PositiveSpectatorFrequencies, Float(CrMaxDiff), None)
                  /\ MaxOf(S) - MinOf(S) <= CrMaxDiff
                         => ReturnedRational(MaxOf(S) + MinOf(S), 2)

\* two spectators 119 MHz apart, an unset one aside, and an own GE far from both
C12_Witness ==
    /\ pc = "done"
    /\ qubit.ge_frequency = 7000
    /\ 8337 \in Range(spectators) /\ 8456 \in Range(spectators)
    /\ ReturnedRational(8337 + 8456, 2)

(***************************************************************************)
(* Properties of the label methods of Target (SpecLabel).                  *)
(***************************************************************************)
\* a qubit label: Q followed by one or more digits, and nothing else
IsQubitName(s) ==
    Len(s) >= 2 /\ s[1] = "Q" /\ \A i \in 2..Len(s) : s[i] \in Digits

\* C13: for a qubit label q = Q<digits>, ge_label, ef_label, cr_label and
\* read_label give q, q-ef, q-CR and Rq, and qubit_label gives q back for each
\* of them; for a paired label <Q1>-<Q2>, qubit_label gives Q1.
C13_LabelRoundTrip ==
    /\ IsQubitName(given_label) =>
          /\ pc = "ge_label" => result = Returned(given_label)
          /\ pc = "ef_label" => result = Returned(given_label \o <<"-", "e", "f">>)
          /\ pc = "cr_label" => result = Returned(given_label \o <<"-", "C", "R">>)
          /\ pc = "read_label" => result = Returned(<<"R">> \o given_label)
          /\ pc \in Range(Parsed) => result = Returned(given_label)
    /\ pc = "qubit_label" =>
          \A i \in DOMAIN given_label :
              (/\ given_label[i] = "-"
               /\ IsQubitName(SubSeq(given_label, 1, i - 1))
               /\ IsQubitName(SubSeq(given_label, i + 1, Len(given_label))))
                  => result = Returned(SubSeq(given_label, 1, i - 1))

\* qubit_label has given Q0 back for the readout label made of Q0
C13_Witness ==
    /\ pc = "qubit_label(read_label)"
    /\ given_label = <<"Q", "0">>
    /\ result = Returned(<<"Q", "0">>)

\* one of the forms R<Q>, <Q>, <Q>-ef, <Q>-CR, <Q1>-<Q2>, <Q>[-_]<suffix>
IsLabelForm(s) ==
    \/ IsQubitName(s)
    \/ s # <<>> /\ s[1] = "R" /\ IsQubitName(Tail(s))
    \/ \E i \in DOMAIN s :
          /\ IsQubitName(SubSeq(s, 1, i - 1))
          /\ s[i] \in {"-", "_"}
          /\ i < Len(s)
          /\ \A j \in (i + 1)..Len(s) : s[j] \in (Letters \cup Digits)

\* C14: for a label that has none of the forms of the grammar, qubit_label
\* raises the invalid-label error, and so do ge_label, ef_label, cr_label and
\* read_label: none of them returns a label.
C14_InvalidLabelRaises ==
    (pc \in {"qubit_label", "ge_label", "ef_label", "cr_label", "read_label"}
     /\ ~IsLabelForm(given_label))
        => result = RaisedInvalidLabel

(***************************************************************************)
(* ExperimentSystem.__init__: the chip, the hardware and the wiring.       *)
(* A qubit, a mux and a port are named by label, index and id.             *)
(***************************************************************************)
Q00 == <<"Q", "0", "0">>

Q01 == <<"Q", "0", "1">>

RQ00 == <<"R", "Q", "0", "0">>

RQ01 == <<"R", "Q", "0", "1">>

Unset == -1     \* a port or channel field the constructor has not written

DEFAULT_CONTROL_VATT == 3072

DEFAULT_READOUT_VATT == 2048

DEFAULT_CONTROL_FSC == 40527

DEFAULT_READOUT_FSC == 40527

DEFAULT_CAPTURE_DELAY == 7

\* dict.get(key, default)
DictGet(d, key, default) == IF key \in DOMAIN d THEN d[key] ELSE default

get_control_vatt(params, q) == DictGet(params.control_vatt, q, DEFAULT_CONTROL_VATT)

get_readout_vatt(params, m) == DictGet(params.readout_vatt, m, DEFAULT_READOUT_VATT)

get_control_fsc(params, q) == DictGet(params.control_fsc, q, DEFAULT_CONTROL_FSC)

get_readout_fsc(params, m) == DictGet(params.readout_fsc, m, DEFAULT_READOUT_FSC)

get_capture_delay(params, m) == DictGet(params.capture_delay, m, DEFAULT_CAPTURE_DELAY)

\* two qubits read out through one mux, each the spectator of the other
QuantumSystems ==
    {[qubits |-> (Q00 :> [label |-> Q00, ge_frequency |-> q0[1], ef_frequency |-> q0[2]])
                 @@ (Q01 :> [label |-> Q01, ge_frequency |-> q1[1], ef_frequency |-> q1[2]]),
      muxes |-> <<[index |-> 0,
                   resonators |-> <<[label |-> RQ00, qubit |-> Q00, frequency |-> 9902],
                                    [label |-> RQ01, qubit |-> Q01, frequency |-> 9908]>>]>>,
      spectators |-> (Q00 :> <<Q01>>) @@ (Q01 :> <<Q00>>)] :
        q0 \in {<<7651, 7295>>, <<7000, 6644>>}, q1 \in {<<8456, 8008>>, <<0, 0>>}}

\* a port as the control system hands it over
NewPort(kind, type, n, box) ==
    [kind |-> kind, type |-> type, n_channels |-> n, box_id |-> box,
     rfswitch |-> "unset", lo_freq |-> Unset, cnco_freq |-> Unset, sideband |-> "unset",
     vatt |-> Unset, fullscale_current |-> Unset,
     channels |-> [i \in 1..n |-> [fnco_freq |-> Unset, ndelay |-> Unset]]]

\* box B0: a capture port, a readout port, two control ports and a pump port;
\* box B1: one control port
ControlSystems ==
    {[boxes |-> <<[id |-> "B0", ports |-> <<"B0.P0", "B0.P1", "B0.P2", "B0.P3", "B0.P4">>],
                  [id |-> "B1", ports |-> <<"B1.P0">>]>>,
      ports |-> ("B0.P0" :> NewPort("cap", "READ_IN", 2, "B0"))
                @@ ("B0.P1" :> NewPort("gen", "READ_OUT", 1, "B0"))
                @@ ("B0.P2" :> NewPort("gen", "CTRL", n2, "B0"))
                @@ ("B0.P3" :> NewPort("gen", "CTRL", n3, "B0"))
                @@ ("B0.P4" :> NewPort("gen", "PUMP", 1, "B0"))
                @@ ("B1.P0" :> NewPort("gen", "CTRL", n5, "B1"))] :
        n2 \in {1, 2, 3}, n3 \in {1, 3}, n5 \in {1, 4}}

\* the mux at most once in read_out and read_in; in ctrl no qubit, one, both, or
\* Q00 wired to two control ports
WiringInfos ==
    [ctrl : {<<>>, <<<<Q00, "B0.P2">>>>, <<<<Q01, "B0.P3">>>>,
             <<<<Q00, "B0.P2">>, <<Q01, "B0.P3">>>>,
             <<<<Q00, "B0.P2">>, <<Q01, "B1.P0">>>>,
             <<<<Q00, "B0.P2">>, <<Q00, "B0.P3">>>>},
     read_out : {<<>>, <<<<0, "B0.P1">>>>},
     read_in : {<<>>, <<<<0, "B0.P0">>>>}]

\* sparse maps: Q00 and mux 0 have their own values, the rest the defaults
ControlParams ==
    [control_amplitude |-> <<>>, readout_amplitude |-> <<>>,
     control_vatt |-> (Q00 :> 2560), readout_vatt |-> (0 :> 2304),
     control_fsc |-> <<>>, readout_fsc |-> <<>>,
     capture_delay |-> (0 :> 9)]

\* `for key, port in pairs: if port == p: return key`, else None
FirstWiredTo(pairs, p) ==
    LET I == {i \in DOMAIN pairs : pairs[i][2] = p}
    IN  IF I = {} THEN NotFound ELSE Found(pairs[MinOf(I)][1])

get_mux_by_readout_port(w, port_id, port) ==
    IF port.kind = "cap" THEN FirstWiredTo(w.read_in, port_id)
    ELSE FirstWiredTo(w.read_out, port_id)

get_qubit_by_control_port(w, port_id) == FirstWiredTo(w.ctrl, port_id)

get_mux(qs, index) ==
    qs.muxes[CHOOSE i \in DOMAIN qs.muxes : qs.muxes[i].index = index]

\* the ge_frequency of get_spectator_qubits(label), in order
spectator_frequencies(qs, label) ==
    [i \in DOMAIN qs.spectators[label] |-> qs.qubits[qs.spectators[label][i]].ge_frequency]

resonator_frequencies(m) == [i \in DOMAIN m.resonators |-> m.resonators[i].frequency]

\* a dict filled by `for key, value in pairs: d[key] = value`
DictOf(pairs) ==
    [k \in {pairs[i][1] : i \in DOMAIN pairs} |->
        pairs[MaxOf({i \in DOMAIN pairs : pairs[i][1] = k})][2]]

\* read_out_port_map / read_in_port_map: resonator.qubit -> port of its mux
readout_port_map(qs, pairs) ==
    LET entries == UNION {{<<r.qubit, i>> : r \in Range(get_mux(qs, pairs[i][1]).resonators)} :
                             i \in DOMAIN pairs}
    IN  [q \in {e[1] : e \in entries} |->
            pairs[MaxOf({e[2] : e \in {x \in entries : x[1] = q}})][2]]

RaisedKeyError(key) == [status |-> "KeyError", msg |-> key]

RaisedIndexError == [status |-> "IndexError", msg |-> "tuple index out of range"]

\* _create_qubit_port_set_map with read_in_port taken from read_out_port_map
create_qubit_port_set_map_ReadOutTwice(qs, w) ==
    LET ctrl_port_map     == DictOf(w.ctrl)
        read_out_port_map == readout_port_map(qs, w.read_out)
        read_in_port_map  == readout_port_map(qs, w.read_in)
        missing == {i \in DOMAIN w.ctrl :
                       \/ w.ctrl[i][1] \notin DOMAIN read_out_port_map
                       \/ w.ctrl[i][1] \notin DOMAIN read_in_port_map}
    IN  IF missing # {} THEN RaisedKeyError(w.ctrl[MinOf(missing)][1])
        ELSE [status |-> "ok",
              value |-> [q \in DOMAIN ctrl_port_map |->
                            [ctrl_port |-> ctrl_port_map[q],
                             read_out_port |-> read_out_port_map[q],
                             read_in_port |-> read_out_port_map[q]]]]

\* _create_qubit_port_set_map: the map, or the KeyError of the first ctrl
\* qubit without a readout port
create_qubit_port_set_map(qs, w) ==
    LET ctrl_port_map     == DictOf(w.ctrl)
        read_out_port_map == readout_port_map(qs, w.read_out)
        read_in_port_map  == readout_port_map(qs, w.read_in)
        \* the keys of ctrl_port_map in insertion order
        missing == {i \in DOMAIN w.ctrl :
                       \/ w.ctrl[i][1] \notin DOMAIN read_out_port_map
                       \/ w.ctrl[i][1] \notin DOMAIN read_in_port_map}
    IN  IF missing # {} THEN RaisedKeyError(w.ctrl[MinOf(missing)][1])
        ELSE [status |-> "ok",
              value |-> [q \in DOMAIN ctrl_port_map |->
                            [ctrl_port |-> ctrl_port_map[q],
                             read_out_port |-> read_out_port_map[q],
                             read_in_port |-> read_in_port_map[q]]]]

\* a readout port with the plan r written to it, the sign of fnco reversed
readout_port_planned_MinusFnco(port, r, vatt, fsc) ==
    IF r.status # "ok" THEN [port |-> port, raised |-> r]
    ELSE [port |-> [port EXCEPT !.lo_freq = r.lo, !.cnco_freq = r.cnco, !.sideband = "U",
                                !.vatt = vatt, !.fullscale_current = fsc,
                                !.channels[1].fnco_freq = -r.fnco],
          raised |-> NoResult]

\* a readout port with the plan r written to it, or left as it is when the
\* planner raised
readout_port_planned(port, r, vatt, fsc) ==
    IF r.status # "ok" THEN [port |-> port, raised |-> r]
    ELSE [port |-> [port EXCEPT !.lo_freq = r.lo, !.cnco_freq = r.cnco, !.sideband = "U",
                                !.vatt = vatt, !.fullscale_current = fsc,
                                !.channels[1].fnco_freq = r.fnco],
          raised |-> NoResult]

\* a control port with the plan r written to it: `port.channels[idx].fnco_freq =
\* fncos[idx]` has no fncos[3] for a fourth channel
control_port_planned(port, r, vatt, fsc) ==
    IF r.status # "ok" THEN [port |-> port, raised |-> r]
    ELSE [port |-> [port EXCEPT
                       !.lo_freq = r.lo, !.cnco_freq = r.cnco, !.sideband = "L",
                       !.vatt = vatt, !.fullscale_current = fsc,
                       !.channels = [idx \in DOMAIN port.channels |->
                                        IF idx > Len(r.fnco) THEN port.channels[idx]
                                        ELSE [port.channels[idx] EXCEPT
                                                 !.fnco_freq = r.fnco[idx]]]],
          raised |-> IF Len(port.channels) > Len(r.fnco) THEN RaisedIndexError
                     ELSE NoResult]

\* a capture port with the plan r written to it, `ndelay +=` for `ndelay =`
capture_port_planned_AddDelay(port, r, ndelay) ==
    IF r.status # "ok" THEN [port |-> port, raised |-> r]
    ELSE [port |-> [port EXCEPT
                       !.lo_freq = r.lo, !.cnco_freq = r.cnco,
                       !.channels = [idx \in DOMAIN port.channels |->
                                        [fnco_freq |-> r.fnco,
                                         ndelay |-> port.channels[idx].ndelay + ndelay]]],
          raised |-> NoResult]

\* a capture port with the plan r written to it
capture_port_planned(port, r, ndelay) ==
    IF r.status # "ok" THEN [port |-> port, raised |-> r]
    ELSE [port |-> [port EXCEPT
                       !.lo_freq = r.lo, !.cnco_freq = r.cnco,
                       !.channels = [idx \in DOMAIN port.channels |->
                                        [fnco_freq |-> r.fnco, ndelay |-> ndelay]]],
          raised |-> NoResult]

\* the port after _initialize_gen_port, the sideband of a control port written
\* before the wiring is looked at
initialize_gen_port_SidebandFirst(qs, w, params, port_id, port) ==
    LET passed == [port EXCEPT !.rfswitch = "pass"]
    IN
    IF port.type = "READ_OUT" THEN
        LET m == get_mux_by_readout_port(w, port_id, port)
        IN  IF ~m.found THEN [port |-> passed, raised |-> NoResult]
            ELSE readout_port_planned(
                     passed,
                     find_readout_lo_nco(resonator_frequencies(get_mux(qs, m.value)),
                                         ReadoutDefaults),
                     get_readout_vatt(params, m.value), get_readout_fsc(params, m.value))
    ELSE IF port.type = "CTRL" THEN
        LET q == get_qubit_by_control_port(w, port_id)
        IN  IF ~q.found THEN [port |-> [passed EXCEPT !.sideband = "L"], raised |-> NoResult]
            ELSE control_port_planned(
                     passed,
                     find_control_lo_nco(qs.qubits[q.value],
                                         spectator_frequencies(qs, q.value),
                                         port.n_channels, ControlDefaults),
                     get_control_vatt(params, q.value), get_control_fsc(params, q.value))
    ELSE [port |-> passed, raised |-> NoResult]

\* the port after _initialize_gen_port, and what the call raised (if anything)
initialize_gen_port(qs, w, params, port_id, port) ==
    LET passed == [port EXCEPT !.rfswitch = "pass"]
    IN
    IF port.type = "READ_OUT" THEN
        LET m == get_mux_by_readout_port(w, port_id, port)
        IN  IF ~m.found THEN [port |-> passed, raised |-> NoResult]
            ELSE readout_port_planned(
                     passed,
                     find_readout_lo_nco(resonator_frequencies(get_mux(qs, m.value)),
                                         ReadoutDefaults),
                     get_readout_vatt(params, m.value), get_readout_fsc(params, m.value))
    ELSE IF port.type = "CTRL" THEN
        LET q == get_qubit_by_control_port(w, port_id)
        IN  IF ~q.found THEN [port |-> passed, raised |-> NoResult]
            ELSE control_port_planned(
                     passed,
                     find_control_lo_nco(qs.qubits[q.value],
                                         spectator_frequencies(qs, q.value),
                                         port.n_channels, ControlDefaults),
                     get_control_vatt(params, q.value), get_control_fsc(params, q.value))
    ELSE [port |-> passed, raised |-> NoResult]

\* the port after _initialize_cap_port, and what the call raised (if anything)
initialize_cap_port(qs, w, params, port_id, port) ==
    LET opened == [port EXCEPT !.rfswitch = "open"]
    IN
    IF port.type = "READ_IN" THEN
        LET m == get_mux_by_readout_port(w, port_id, port)
        IN  IF ~m.found THEN [port |-> opened, raised |-> NoResult]
            ELSE capture_port_planned(
                     opened,
                     find_readout_lo_nco(resonator_frequencies(get_mux(qs, m.value)),
                                         ReadoutDefaults),
                     get_capture_delay(params, m.value))
    ELSE [port |-> opened, raised |-> NoResult]

\* `for box in self.boxes: for port in box.ports`: the port ids in loop order
RECURSIVE PortsFrom(_, _)
PortsFrom(boxes, i) ==
    IF i > Len(boxes) THEN <<>> ELSE boxes[i].ports \o PortsFrom(boxes, i + 1)

PortOrder(cs) == PortsFrom(cs.boxes, 1)

(***************************************************************************)
(* _initialize_targets.  A Target is [label, frequency, type, qubit]; the  *)
(* registries are dicts keyed by label, the channel maps give the port and *)
(* the channel number bound to a label.  The order of the sorted dicts is  *)
(* not kept: a dict is a function.                                         *)
(***************************************************************************)
\* d[key] = value
DictPut(d, key, value) ==
    [k \in DOMAIN d \cup {key} |-> IF k = key THEN value ELSE d[k]]

\* the channel of a control port that carries a target of the given type
channel_number(type) ==
    IF type = "CTRL_GE" THEN 0 ELSE IF type = "CTRL_EF" THEN 1 ELSE 2

ge_target(q) ==
    [label |-> ge_label(q.label).value, frequency |-> Float(q.ge_frequency),
     type |-> "CTRL_GE", qubit |-> q.label]

ef_target(q) ==
    [label |-> ef_label(q.label).value, frequency |-> Float(q.ef_frequency),
     type |-> "CTRL_EF", qubit |-> q.label]

cr_target(q, frequency) ==
    [label |-> cr_label(q.label).value, frequency |-> frequency,
     type |-> "CTRL_CR", qubit |-> q.label]

readout_target(r) ==
    [label |-> read_label(r.label).value, frequency |-> Float(r.frequency),
     type |-> "READ", qubit |-> r.qubit]

NoTargets ==
    [ge |-> <<>>, ef |-> <<>>, cr |-> <<>>, readout |-> <<>>,
     gen_channel |-> <<>>, cap_channel |-> <<>>, raised |-> NoResult]

Channel(port_id, number) == [port_id |-> port_id, number |-> number]

\* the targets of one resonator after another of a readout port
RECURSIVE readout_targets_from(_, _, _, _)
readout_targets_from(acc, resonators, i, port_id) ==
    IF i > Len(resonators) THEN acc
    ELSE LET t == readout_target(resonators[i])
         IN  readout_targets_from(
                 [acc EXCEPT !.readout = DictPut(@, t.label, t),
                             !.gen_channel = DictPut(@, t.label, Channel(port_id, 0))],
                 resonators, i + 1, port_id)

\* the capture channels, port.channels[0] for port.channels[idx]
RECURSIVE capture_channels_from_FirstChannel(_, _, _, _, _)
capture_channels_from_FirstChannel(acc, resonators, i, port_id, port) ==
    IF i > Len(resonators) THEN acc
    ELSE IF i > Len(port.channels) THEN [acc EXCEPT !.raised = RaisedIndexError]
    ELSE LET t == readout_target(resonators[i])
         IN  capture_channels_from_FirstChannel(
                 [acc EXCEPT !.cap_channel = DictPut(@, t.label, Channel(port_id, 0))],
                 resonators, i + 1, port_id, port)

\* the capture channel of one resonator after another: port.channels[idx]
RECURSIVE capture_channels_from(_, _, _, _, _)
capture_channels_from(acc, resonators, i, port_id, port) ==
    IF i > Len(resonators) THEN acc
    ELSE IF i > Len(port.channels) THEN [acc EXCEPT !.raised = RaisedIndexError]
    ELSE LET t == readout_target(resonators[i])
         IN  capture_channels_from(
                 [acc EXCEPT !.cap_channel = DictPut(@, t.label, Channel(port_id, i - 1))],
                 resonators, i + 1, port_id, port)

\* the targets of a wired control port with n channels
control_targets(acc, port_id, n, ge, ef, cr) ==
    IF n = 1 THEN
        [acc EXCEPT !.ge = DictPut(@, ge.label, ge),
                    !.gen_channel = DictPut(@, ge.label, Channel(port_id, 0))]
    ELSE IF n = 3 THEN
        [acc EXCEPT
            !.ge = DictPut(@, ge.label, ge),
            !.ef = DictPut(@, ef.label, ef),
            !.cr = DictPut(@, cr.label, cr),
            !.gen_channel =
                DictPut(DictPut(DictPut(@,
                    ge.label, Channel(port_id, channel_number(ge.type))),
                    ef.label, Channel(port_id, channel_number(ef.type))),
                    cr.label, Channel(port_id, channel_number(cr.type)))]
    ELSE acc

\* the body of the loop of _initialize_targets for one port
targets_of_port(acc, qs, w, port_id, port) ==
    IF port.kind = "gen" /\ port.type = "CTRL" THEN
        LET q == get_qubit_by_control_port(w, port_id)
        IN  IF ~q.found THEN acc
            ELSE control_targets(
                     acc, port_id, port.n_channels,
                     ge_target(qs.qubits[q.value]), ef_target(qs.qubits[q.value]),
                     cr_target(qs.qubits[q.value],
                               calc_cr_target_frequency(
                                   qs.qubits[q.value], spectator_frequencies(qs, q.value))))
    ELSE IF port.kind = "gen" /\ port.type = "READ_OUT" THEN
        LET m == get_mux_by_readout_port(w, port_id, port)
        IN  IF ~m.found THEN acc
            ELSE readout_targets_from(acc, get_mux(qs, m.value).resonators, 1, port_id)
    ELSE IF port.kind = "cap" /\ port.type = "READ_IN" THEN
        LET m == get_mux_by_readout_port(w, port_id, port)
        IN  IF ~m.found THEN acc
            ELSE capture_channels_from(acc, get_mux(qs, m.value).resonators, 1,
                                       port_id, port)
    ELSE acc

\* the loop over the ports, stopped by the first error
RECURSIVE targets_from(_, _, _, _, _)
targets_from(acc, qs, cs, w, i) ==
    IF i > Len(PortOrder(cs)) \/ acc.raised # NoResult THEN acc
    ELSE targets_from(
             targets_of_port(acc, qs, w, PortOrder(cs)[i], cs.ports[PortOrder(cs)[i]]),
             qs, cs, w, i + 1)

initialize_targets(qs, cs, w) == targets_from(NoTargets, qs, cs, w, 1)

(***************************************************************************)
(* Target.new_cr_target.  Channel frequencies in units of 100 Hz, Target   *)
(* frequencies in kHz (1e-6 GHz), qubit frequencies in MHz.                *)
(***************************************************************************)
\* Target.new_cr_target with the frequency of the channel in both branches
new_cr_target_FromChannel(control_qubit, target_qubit, channel) ==
    LET q == channel.fine_frequency \div 10
        r == channel.fine_frequency % 10
        rounded == IF r < 5 THEN {q} ELSE IF r > 5 THEN {q + 1} ELSE {q, q + 1}
    IN  {[label |-> IF target_qubit.given
                    THEN control_qubit.label \o <<"-">> \o target_qubit.list.label
                    ELSE cr_label(control_qubit.label).value,
          frequency |-> f, object |-> control_qubit.label, type |-> "CTRL_CR"] :
            f \in rounded}

\* Target.new_cr_target: the targets the call can return.  round(x * 1e-9, 6)
\* is the nearest multiple of 1e-6 GHz; when x lies halfway between two of
\* them, the binary value of x * 1e-9 decides, and both outcomes occur
new_cr_target(control_qubit, target_qubit, channel) ==
    IF target_qubit.given THEN
        {[label |-> control_qubit.label \o <<"-">> \o target_qubit.list.label,
          frequency |-> target_qubit.list.ge_frequency * 1000,
          object |-> control_qubit.label, type |-> "CTRL_CR"]}
    ELSE
        LET q == channel.fine_frequency \div 10
            r == channel.fine_frequency % 10
            rounded == IF r < 5 THEN {q} ELSE IF r > 5 THEN {q + 1} ELSE {q, q + 1}
        IN  {[label |-> cr_label(control_qubit.label).value, frequency |-> f,
              object |-> control_qubit.label, type |-> "CTRL_CR"] : f \in rounded}

\* a caller about to call Target.new_cr_target(control_qubit=..., target_qubit=...,
\* channel=...): two qubits, with or without a target qubit, and a channel
\* whose fine frequency is on, next to or halfway between multiples of 1 kHz
InitCrTarget ==
    /\ pc = "ready"
    /\ kwargs \in [control_qubit : {[label |-> Q00, ge_frequency |-> 7651],
                                    [label |-> Q01, ge_frequency |-> 8456]},
                   target_qubit : {None, Some([label |-> Q00, ge_frequency |-> 7651]),
                                   Some([label |-> Q01, ge_frequency |-> 8456])},
                   channel : [fine_frequency : {0, 73000000, 76510000, 76510004, 76510005,
                                                76510006, 76510015, 84560000, 84559995,
                                                84560010}]]
    /\ mux = Unused /\ qubit = Unused /\ spectators = Unused /\ n_channels = 0
    /\ frequencies = Unused /\ max_diff = 0 /\ mandatory_frequencies = None
    /\ NoFacade /\ NoLookup
    /\ result = NoResult

CallNewCrTarget ==
    /\ pc = "ready"
    /\ \E t \in new_cr_target(kwargs.control_qubit, kwargs.target_qubit, kwargs.channel) :
           result' = Returned(t)
    /\ pc' = "done"
    /\ UNCHANGED <<callVars, lookupVars, facadeVars>>

SpecCrTarget == InitCrTarget /\ [][CallNewCrTarget]_vars

(***************************************************************************)
(* Lookups of the constructed ExperimentSystem.                            *)
(***************************************************************************)
\* a | b of two dicts: the entries of b win
DictMerge(a, b) ==
    [k \in DOMAIN a \cup DOMAIN b |-> IF k \in DOMAIN b THEN b[k] ELSE a[k]]

\* self._target_dict
target_dict(t) == DictMerge(DictMerge(DictMerge(t.ge, t.ef), t.cr), t.readout)

\* self._target_dict[label], or KeyError(f"Target `{label}` not found.")
get_target(t, label) ==
    IF label \in DOMAIN target_dict(t) THEN Returned(target_dict(t)[label])
    ELSE RaisedKeyError(label)

\* get_target(label) of the label a class method of Target made, or its error
get_target_of(t, made) == IF made.status # "ok" THEN made ELSE get_target(t, made.value)

\* get_ge_target looking the label up as given
get_ge_target_Raw(t, label) == get_target(t, label)

get_ge_target(t, label) == get_target_of(t, ge_label(label))

get_ef_target(t, label) == get_target_of(t, ef_label(label))

get_cr_target(t, label) == get_target_of(t, cr_label(label))

\* Target.readout_label: the readout form R<Qubit> of the label grammar
readout_label(label) == formatted(qubit_label(label), <<"R">>, <<>>)

get_readout_target(t, label) == get_target_of(t, readout_label(label))

\* self._qubit_port_set_map.get(qubit) for a label
get_qubit_port_set(m, q) == IF q \in DOMAIN m THEN Found(m[q]) ELSE NotFound

\* get_control_port: the control port of the qubit, or the ValueError whose
\* message is "Qubit `{qubit}` not found." with the qubit given
get_control_port(m, q) ==
    LET ports == get_qubit_port_set(m, q)
    IN  IF ~ports.found THEN Raised([text |-> "Qubit not found.", qubit |-> q])
        ELSE Returned(ports.value.ctrl_port)

\* the box ids added to box_ids, `break` for `continue` at a qubit without ports
RECURSIVE box_ids_from_Break(_, _, _, _)
box_ids_from_Break(m, cs, qs, i) ==
    IF i > Len(qs) THEN {}
    ELSE LET ports == get_qubit_port_set(m, qs[i])
         IN  IF ~ports.found THEN {}
             ELSE {cs.ports[ports.value.ctrl_port].box_id,
                   cs.ports[ports.value.read_out_port].box_id,
                   cs.ports[ports.value.read_in_port].box_id}
                  \cup box_ids_from_Break(m, cs, qs, i + 1)

\* the box ids added to box_ids for one qubit after another
RECURSIVE box_ids_from(_, _, _, _)
box_ids_from(m, cs, qs, i) ==
    IF i > Len(qs) THEN {}
    ELSE LET ports == get_qubit_port_set(m, qs[i])
         IN  (IF ~ports.found THEN {}
              ELSE {cs.ports[ports.value.ctrl_port].box_id,
                    cs.ports[ports.value.read_out_port].box_id,
                    cs.ports[ports.value.read_in_port].box_id})
             \cup box_ids_from(m, cs, qs, i + 1)

\* self.control_system.get_box(box_id)
get_box(cs, box_id) == cs.boxes[CHOOSE i \in DOMAIN cs.boxes : cs.boxes[i].id = box_id]

\* the orders in which a set can be iterated
Orders(S) == {o \in [1..Cardinality(S) -> S] : Range(o) = S}

\* get_boxes_for_qubits: [self.get_box(box_id) for box_id in box_ids], for each
\* order the set box_ids may be iterated in
get_boxes_for_qubits(m, cs, qs) ==
    {[i \in DOMAIN o |-> get_box(cs, o[i])] : o \in Orders(box_ids_from(m, cs, qs, 1))}

(***************************************************************************)
(* The constructor, one step at a time.                                    *)
(***************************************************************************)
NoCall ==
    /\ mux = Unused /\ qubit = Unused /\ spectators = Unused /\ n_channels = 0
    /\ kwargs = Unused /\ frequencies = Unused /\ max_diff = 0
    /\ mandatory_frequencies = None

Init ==
    /\ pc = "create_qubit_port_set_map"
    /\ quantum_system \in QuantumSystems
    /\ control_system \in ControlSystems
    /\ wiring_info \in WiringInfos
    /\ control_params = ControlParams
    /\ qubit_port_set_map = Unused
    /\ next_port = 1
    /\ targets = Unused
    /\ first_system = Unused
    /\ pending = Unused
    /\ NoCall /\ NoLookup
    /\ result = NoResult

\* self._qubit_port_set_map = self._create_qubit_port_set_map()
CreateQubitPortSetMap ==
    /\ pc = "create_qubit_port_set_map"
    /\ LET r == create_qubit_port_set_map(quantum_system, wiring_info)
       IN  IF r.status = "ok"
           THEN /\ qubit_port_set_map' = r.value
                /\ pc' = "initialize_system"
                /\ result' = result
           ELSE /\ qubit_port_set_map' = qubit_port_set_map
                /\ pc' = "failed"
                /\ result' = r
    /\ UNCHANGED <<callVars, lookupVars, quantum_system, control_system, wiring_info,
                   control_params, next_port, targets, first_system, pending>>

\* self._initialize_gen_port(port, params) or self._initialize_cap_port(port, params)
initialize_port(qs, w, params, port_id, port) ==
    IF port.kind = "gen" THEN initialize_gen_port(qs, w, params, port_id, port)
    ELSE initialize_cap_port(qs, w, params, port_id, port)

\* the port as the call left it, the loop ending one port early
PortInitialized_OnePortEarly(port_id, out) ==
    /\ control_system' = [control_system EXCEPT !.ports[port_id] = out.port]
    /\ IF out.raised # NoResult
       THEN /\ pc' = "failed"
            /\ result' = out.raised
            /\ next_port' = next_port
       ELSE /\ pc' = IF next_port >= Len(PortOrder(control_system)) - 1
                     THEN "initialize_targets" ELSE "initialize_system"
            /\ result' = result
            /\ next_port' = next_port + 1

\* the port as the call left it; an error ends the construction
PortInitialized(port_id, out) ==
    /\ control_system' = [control_system EXCEPT !.ports[port_id] = out.port]
    /\ IF out.raised # NoResult
       THEN /\ pc' = "failed"
            /\ result' = out.raised
            /\ next_port' = next_port
       ELSE /\ pc' = IF next_port = Len(PortOrder(control_system))
                     THEN "initialize_targets" ELSE "initialize_system"
            /\ result' = result
            /\ next_port' = next_port + 1

\* one turn of the loop of _initialize_system
InitializePort ==
    /\ pc = "initialize_system"
    /\ pending = Unused
    /\ \E port_id \in {PortOrder(control_system)[next_port]} :
           PortInitialized(port_id,
                           initialize_port(quantum_system, wiring_info, control_params,
                                           port_id, control_system.ports[port_id]))
    /\ UNCHANGED <<callVars, lookupVars, quantum_system, wiring_info, control_params,
                   qubit_port_set_map, targets, first_system, pending>>

\* the registries as _initialize_targets built them; an error ends the construction
TargetsInitialized(t) ==
    IF t.raised # NoResult
    THEN /\ pc' = "failed"
         /\ result' = t.raised
         /\ targets' = targets
    ELSE /\ pc' = "constructed"
         /\ result' = [status |-> "ok"]
         /\ targets' = t

\* self._initialize_targets()
InitializeTargets ==
    /\ pc = "initialize_targets"
    /\ TargetsInitialized(initialize_targets(quantum_system, control_system, wiring_info))
    /\ UNCHANGED <<callVars, lookupVars, quantum_system, control_system, wiring_info,
                   control_params, qubit_port_set_map, next_port, first_system, pending>>

\* the labels a lookup is called with: the forms of Q00 and Q01, a paired and a
\* generic form, a qubit the chip does not have, and labels of no form
LookupLabels ==
    {Q00, RQ00, Q00 \o <<"-", "e", "f">>, Q00 \o <<"-", "C", "R">>,
     Q01, RQ01, Q01 \o <<"-", "e", "f">>, Q01 \o <<"-", "C", "R">>,
     Q00 \o <<"-">> \o Q01, Q01 \o <<"_", "x">>, <<"Q", "0", "2">>,
     <<"R">> \o Q00 \o <<"-", "e", "f">>, <<"x">>}

\* the qubits get_boxes_for_qubits is called with
LookupQubits == SeqsUpTo({Q00, Q01, <<"Q", "0", "2">>}, 2)

\* a lookup by label of the constructed system
Lookup(method, label) ==
    /\ pc = "constructed"
    /\ given_label' = label
    /\ pc' = method
    /\ UNCHANGED <<callVars, qubits, facadeVars>>

CallGetTarget ==
    \E l \in LookupLabels : Lookup("get_target", l) /\ result' = get_target(targets, l)

CallGetGeTarget ==
    \E l \in LookupLabels : Lookup("get_ge_target", l) /\ result' = get_ge_target(targets, l)

CallGetEfTarget ==
    \E l \in LookupLabels : Lookup("get_ef_target", l) /\ result' = get_ef_target(targets, l)

CallGetCrTarget ==
    \E l \in LookupLabels : Lookup("get_cr_target", l) /\ result' = get_cr_target(targets, l)

CallGetReadoutTarget ==
    \E l \in LookupLabels :
        Lookup("get_readout_target", l) /\ result' = get_readout_target(targets, l)

CallGetBoxesForQubits ==
    /\ pc = "constructed"
    /\ \E qs \in LookupQubits :
           /\ qubits' = qs
           /\ \E boxes \in get_boxes_for_qubits(qubit_port_set_map, control_system, qs) :
                  result' = Returned(boxes)
    /\ pc' = "get_boxes_for_qubits"
    /\ UNCHANGED <<callVars, given_label, facadeVars>>

\* get_control_port(qubit) of the constructed system, for a qubit label
CallGetControlPort ==
    \E q \in {Q00, Q01, <<"Q", "0", "2">>} :
        Lookup("get_control_port", q) /\ result' = get_control_port(qubit_port_set_map, q)

\* __init__
Construct == CreateQubitPortSetMap \/ InitializePort \/ InitializeTargets

\* ExperimentSystem(quantum_system, control_system, wiring_info, control_params)
\* called a second time with the same four objects, the ports as the first
\* construction left them
ConstructAgain ==
    /\ pc = "constructed"
    /\ first_system = Unused
    /\ first_system' = [qubit_port_set_map |-> qubit_port_set_map, targets |-> targets,
                        ports |-> control_system.ports]
    /\ pc' = "create_qubit_port_set_map"
    /\ qubit_port_set_map' = Unused
    /\ next_port' = 1
    /\ targets' = Unused
    /\ result' = NoResult
    /\ UNCHANGED <<callVars, lookupVars, quantum_system, control_system, wiring_info,
                   control_params, pending>>

Next ==
    \/ Construct
    \/ ConstructAgain
    \/ CallGetTarget \/ CallGetGeTarget \/ CallGetEfTarget \/ CallGetCrTarget
    \/ CallGetReadoutTarget
    \/ CallGetBoxesForQubits
    \/ CallGetControlPort

Spec == Init /\ [][Next]_vars

\* _initialize_system: the ports after the loop over box.ports from position i
\* on, stopped by the first call that raises
RECURSIVE initialize_system_from(_, _, _, _, _, _)
initialize_system_from(ports, order, i, qs, w, params) ==
    IF i > Len(order) THEN ports
    ELSE LET out == initialize_port(qs, w, params, order[i], ports[order[i]])
         IN  IF out.raised # NoResult THEN [ports EXCEPT ![order[i]] = out.port]
             ELSE initialize_system_from([ports EXCEPT ![order[i]] = out.port],
                                         order, i + 1, qs, w, params)

\* the construction with the per-port initializations free to run in any order
InitAnyOrder ==
    /\ pc = "create_qubit_port_set_map"
    /\ quantum_system \in QuantumSystems
    /\ control_system \in ControlSystems
    /\ wiring_info \in WiringInfos
    /\ control_params = ControlParams
    /\ qubit_port_set_map = Unused
    /\ next_port = 1
    /\ targets = Unused
    /\ first_system = Unused
    /\ pending = [p \in DOMAIN control_system.ports |-> TRUE]
    /\ NoCall /\ NoLookup
    /\ result = NoResult

\* the port as the call left it, taken off the pending ports; an error ends
\* the construction
AnyPortInitialized(port_id, out) ==
    /\ control_system' = [control_system EXCEPT !.ports[port_id] = out.port]
    /\ pending' = [pending EXCEPT ![port_id] = FALSE]
    /\ IF out.raised # NoResult
       THEN pc' = "failed" /\ result' = out.raised
       ELSE /\ pc' = IF \A p \in DOMAIN pending \ {port_id} : ~pending[p]
                     THEN "initialize_targets" ELSE "initialize_system"
            /\ result' = result

\* self._initialize_gen_port(port, params) or self._initialize_cap_port(port,
\* params) for any port whose initialization has not run yet
InitializeAnyPort ==
    /\ pc = "initialize_system"
    /\ \E port_id \in {p \in DOMAIN pending : pending[p]} :
           AnyPortInitialized(port_id,
                              initialize_port(quantum_system, wiring_info, control_params,
                                              port_id, control_system.ports[port_id]))
    /\ UNCHANGED <<callVars, lookupVars, quantum_system, wiring_info, control_params,
                   qubit_port_set_map, next_port, targets, first_system>>

NextAnyOrder == CreateQubitPortSetMap \/ InitializeAnyPort \/ InitializeTargets

SpecAnyOrder == InitAnyOrder /\ [][NextAnyOrder]_vars

\* find_control_lo_nco called directly, or by the constructor for a control port
InitChannels == InitControl \/ Init

NextChannels == CallFindControlLoNco \/ Construct

SpecChannels == InitChannels /\ [][NextChannels]_vars

(***************************************************************************)
(* Properties of the constructor.                                          *)
(***************************************************************************)
Constructing == pc \in {"create_qubit_port_set_map", "initialize_system",
                        "initialize_targets", "constructed", "failed"}

\* the places in the port order of the wired control ports that have neither
\* one nor three channels
InvalidControlPorts ==
    {i \in DOMAIN PortOrder(control_system) :
        LET port_id == PortOrder(control_system)[i]
            port    == control_system.ports[port_id]
        IN  /\ port.kind = "gen" /\ port.type = "CTRL"
            /\ get_qubit_by_control_port(wiring_info, port_id).found
            /\ port.n_channels \notin {1, 3}}

\* the constructor never gets past the first such port: it fails there with the
\* invalid-channel-count error, and no target is registered
InvalidPortAbortsConstruction ==
    (Constructing /\ InvalidControlPorts # {}) =>
        /\ pc \notin {"initialize_targets", "constructed"}
        /\ targets = Unused
        /\ pc = "initialize_system" => next_port <= MinOf(InvalidControlPorts)
        /\ (pc = "failed" /\ result.status = "ValueError") =>
               /\ next_port = MinOf(InvalidControlPorts)
               /\ result = Raised("Invalid number of channels: ")

\* C6: find_control_lo_nco called with an n_channels other than 1 or 3 raises the
\* invalid-channel-count error and returns no (lo, cnco, fnco); when the call is
\* made by the constructor for a wired control port, the construction is aborted.
C6_InvalidChannels == InvalidCallRaises /\ InvalidPortAbortsConstruction

\* the constructor has failed at the four-channel port B1.P0 wired to Q01
C6_Witness ==
    /\ pc = "failed" /\ result = Raised("Invalid number of channels: ")
    /\ PortOrder(control_system)[next_port] = "B1.P0"
    /\ control_system.ports["B1.P0"].n_channels = 4
    /\ get_qubit_by_control_port(wiring_info, "B1.P0") = Found(Q01)

(***************************************************************************)
(* Properties of the lookups (Spec).                                       *)
(***************************************************************************)
\* the label forms of a qubit: Q, RQ, Q-ef, Q-CR
EfForm(q) == q \o <<"-", "e", "f">>

CrForm(q) == q \o <<"-", "C", "R">>

ReadForm(q) == <<"R">> \o q

Forms(q) == {q, ReadForm(q), EfForm(q), CrForm(q)}

\* the lookup returned the target registered under l, which carries that label
ReturnedTarget(registry, l, type) ==
    /\ result = Returned(registry[l])
    /\ result.value.label = l
    /\ result.value.type = type

TargetedControlPorts ==
    {p \in DOMAIN control_system.ports :
        /\ control_system.ports[p].kind = "gen" /\ control_system.ports[p].type = "CTRL"
        /\ control_system.ports[p].n_channels \in {1, 3}
        /\ get_qubit_by_control_port(wiring_info, p).found}

\* two control ports whose GE targets get the same label
SameLabelTwice ==
    \E p1, p2 \in TargetedControlPorts :
        /\ p1 # p2
        /\ get_qubit_by_control_port(wiring_info, p1)
               = get_qubit_by_control_port(wiring_info, p2)

\* C16: an input that makes two Targets with the same label, such as two
\* control ports wired to the same qubit, makes the construction fail: no
\* system is constructed from it with one of the two targets kept.
C16_SameLabelFailsConstruction == ~(pc = "constructed" /\ SameLabelTwice)

(***************************************************************************)
(* Properties of a failed construction (Spec).                             *)
(***************************************************************************)
\* the port carries a field the planner wrote
PlannerWritten(port) ==
    \/ port.lo_freq # Unset \/ port.cnco_freq # Unset \/ port.vatt # Unset
    \/ port.sideband # "unset" \/ port.fullscale_current # Unset
    \/ \E i \in DOMAIN port.channels : port.channels[i].fnco_freq # Unset

\* C17: when a step of the construction fails, the error reaches the caller, no
\* system is produced and no port is left half-initialized: in no state in
\* which the construction has failed does a port carry lo, cnco, fnco or vatt
\* written by the planner.
C17_AllOrNothing ==
    pc = "failed" =>
        /\ result.status \notin {"none", "ok"}
        /\ targets = Unused
        /\ \A p \in DOMAIN control_system.ports : ~PlannerWritten(control_system.ports[p])

(***************************************************************************)
(* Properties of a second construction (Spec).                             *)
(***************************************************************************)
\* C18: a second construction from the same topology, wiring and control
\* params ends as the first did: it does not fail, its GE/EF/CR/Readout
\* registries and channel bindings and its QubitPortSet map are those of the
\* first, and every port has the lo_freq, cnco_freq, fnco_freq, sideband and
\* vatt the first construction gave it, although the second one found the ports
\* already written.
C18_SecondConstructionSame ==
    first_system # Unused =>
        /\ pc # "failed"
        /\ pc = "constructed" =>
              /\ targets = first_system.targets
              /\ qubit_port_set_map = first_system.qubit_port_set_map
              /\ control_system.ports = first_system.ports

\* a second construction that has planned control, readout and capture ports
\* and registered targets
C18_Witness ==
    /\ first_system # Unused /\ pc = "constructed"
    /\ DOMAIN targets.ef # {} /\ DOMAIN targets.readout # {}
    /\ DOMAIN targets.cap_channel # {}
    /\ \E p \in DOMAIN control_system.ports : control_system.ports[p].lo_freq = Unset

(***************************************************************************)
(* Properties of the ports no wiring relation names (Spec).                *)
(***************************************************************************)
\* the port ids the wiring relations name
WiredPorts ==
    {wiring_info.ctrl[i][2] : i \in DOMAIN wiring_info.ctrl}
    \cup {wiring_info.read_out[i][2] : i \in DOMAIN wiring_info.read_out}
    \cup {wiring_info.read_in[i][2] : i \in DOMAIN wiring_info.read_in}

UnwiredPorts == DOMAIN control_system.ports \ WiredPorts

\* the port ids the channel bindings of the registries refer to
BoundPorts ==
    IF targets = Unused THEN {}
    ELSE {targets.gen_channel[l].port_id : l \in DOMAIN targets.gen_channel}
         \cup {targets.cap_channel[l].port_id : l \in DOMAIN targets.cap_channel}

\* the planner fields of the port are the ones the control system handed over
AsHandedOver(port) ==
    LET new == NewPort(port.kind, port.type, port.n_channels, port.box_id)
    IN  /\ port.lo_freq = new.lo_freq /\ port.cnco_freq = new.cnco_freq
        /\ port.sideband = new.sideband /\ port.vatt = new.vatt
        /\ port.fullscale_current = new.fullscale_current
        /\ port.channels = new.channels

\* C19: a generator or capture port that no wiring relation names is skipped:
\* the construction never fails in the step that initializes it, no channel
\* binding of a target refers to it, and its lo_freq, cnco_freq, sideband,
\* vatt, fullscale_current and the fnco_freq and ndelay of its channels are
\* the ones it had before the construction.
C19_UnwiredPortsSkipped ==
    /\ \A p \in UnwiredPorts :
           /\ AsHandedOver(control_system.ports[p])
           /\ p \notin BoundPorts
    /\ (pc = "failed" /\ qubit_port_set_map # Unused) =>
           /\ next_port \in DOMAIN PortOrder(control_system)
           /\ PortOrder(control_system)[next_port] \in WiredPorts

\* a constructed system with a control port and a pump port the construction
\* went over without planning them, next to a planned control port with targets
C19_Witness ==
    /\ pc = "constructed"
    /\ \E p \in UnwiredPorts :
           control_system.ports[p].type = "CTRL" /\ control_system.ports[p].rfswitch = "pass"
    /\ \E p \in UnwiredPorts :
           control_system.ports[p].type = "PUMP" /\ control_system.ports[p].rfswitch = "pass"
    /\ \E p \in WiredPorts :
           /\ control_system.ports[p].type = "CTRL"
           /\ PlannerWritten(control_system.ports[p])
           /\ p \in BoundPorts

(***************************************************************************)
(* Properties of get_boxes_for_qubits (Spec).                              *)
(***************************************************************************)
\* the given qubits that have a port set
QubitsWithPortSet == Range(qubits) \cap DOMAIN qubit_port_set_map

\* the box ids of the control, readout-out and readout-in port of a port set
BoxIdsOfPortSet(ports) ==
    {control_system.ports[p].box_id :
        p \in {ports.ctrl_port, ports.read_out_port, ports.read_in_port}}

\* C20: get_boxes_for_qubits(qubits) returns, without raising, the boxes whose
\* ids are the union of the control, readout-out and readout-in port box ids
\* of the port sets of the given qubits: each of these boxes once and no other
\* box, a qubit without a port set adding nothing.
C20_BoxesForQubits ==
    pc = "get_boxes_for_qubits" =>
        /\ result.status = "ok"
        /\ Range(result.value) \subseteq Range(control_system.boxes)
        /\ {result.value[i].id : i \in DOMAIN result.value}
               = UNION {BoxIdsOfPortSet(qubit_port_set_map[q]) : q \in QubitsWithPortSet}
        /\ \A i, j \in DOMAIN result.value :
               result.value[i].id = result.value[j].id => i = j

\* the boxes of a qubit whose ports are in two boxes, asked for after a qubit
\* that has no port set
C20_Witness ==
    /\ pc = "get_boxes_for_qubits"
    /\ Len(qubits) = 2
    /\ qubits[1] \notin DOMAIN qubit_port_set_map
    /\ qubits[2] \in DOMAIN qubit_port_set_map
    /\ Len(result.value) = 2

(***************************************************************************)
(* Properties of the registries of a constructed system (Spec).            *)
(***************************************************************************)
\* the qubit wired to the control port p
QubitOf(p) == quantum_system.qubits[get_qubit_by_control_port(wiring_info, p).value]

\* the labels of the registry whose targets are targets of the qubit q
LabelsOf(registry, q) == {l \in DOMAIN registry : registry[l].qubit = q.label}

\* the registry holds one target of q, labelled label, with the frequency given
\* and bound to channel number of the port p
OneTarget(registry, q, label, type, frequency, p, number) ==
    /\ LabelsOf(registry, q) = {label}
    /\ registry[label].type = type
    /\ registry[label].frequency = frequency
    /\ label \in DOMAIN targets.gen_channel
    /\ targets.gen_channel[label] = Channel(p, number)

\* C21: in a constructed system a wired control port with one channel gives
\* its qubit exactly one target, the GE target labelled as the qubit, with the
\* GE frequency of the qubit and bound to channel 0 of the port, and no EF or
\* CR target; a wired control port with three channels gives its qubit a GE,
\* an EF and a CR target bound to three different channels of that port.
C21_ControlTargets ==
    pc = "constructed" =>
        \A p \in TargetedControlPorts :
            LET q == QubitOf(p)
            IN  /\ OneTarget(targets.ge, q, q.label, "CTRL_GE", Float(q.ge_frequency), p, 0)
                /\ control_system.ports[p].n_channels = 1 =>
                       LabelsOf(targets.ef, q) = {} /\ LabelsOf(targets.cr, q) = {}
                /\ control_system.ports[p].n_channels = 3 =>
                       /\ \E l \in DOMAIN targets.ef :
                              OneTarget(targets.ef, q, l, "CTRL_EF",
                                        Float(q.ef_frequency), p, 1)
                       /\ \E l \in DOMAIN targets.cr :
                              /\ LabelsOf(targets.cr, q) = {l}
                              /\ targets.cr[l].type = "CTRL_CR"
                              /\ targets.gen_channel[l] = Channel(p, 2)

\* the readout ports: the generator (capture) ports a mux is wired to
WiredReadOut ==
    {i \in DOMAIN wiring_info.read_out :
        /\ control_system.ports[wiring_info.read_out[i][2]].kind = "gen"
        /\ control_system.ports[wiring_info.read_out[i][2]].type = "READ_OUT"}

WiredReadIn ==
    {i \in DOMAIN wiring_info.read_in :
        /\ control_system.ports[wiring_info.read_in[i][2]].kind = "cap"
        /\ control_system.ports[wiring_info.read_in[i][2]].type = "READ_IN"}

\* C22: in a constructed system every resonator of a mux wired to a READ_OUT
\* generator port has exactly one READ target, with the frequency of the
\* resonator and bound to channel 0 of that port; for a mux wired to a READ_IN
\* capture port the capture map binds the resonator at position i of the mux
\* to capture channel i of that port, so two resonators of a mux never have
\* the same capture channel.
C22_ReadoutTargets ==
    pc = "constructed" =>
        /\ \A i \in WiredReadOut :
               LET rs == get_mux(quantum_system, wiring_info.read_out[i][1]).resonators
               IN  \A k \in DOMAIN rs :
                       /\ {l \in DOMAIN targets.readout :
                              targets.readout[l].qubit = rs[k].qubit} = {rs[k].label}
                       /\ targets.readout[rs[k].label].type = "READ"
                       /\ targets.readout[rs[k].label].frequency = Float(rs[k].frequency)
                       /\ targets.gen_channel[rs[k].label]
                              = Channel(wiring_info.read_out[i][2], 0)
        /\ \A i \in WiredReadIn :
               LET rs == get_mux(quantum_system, wiring_info.read_in[i][1]).resonators
               IN  /\ \A k \in DOMAIN rs :
                          /\ rs[k].label \in DOMAIN targets.cap_channel
                          /\ targets.cap_channel[rs[k].label]
                                 = Channel(wiring_info.read_in[i][2], k - 1)
                   /\ \A j, k \in DOMAIN rs :
                          targets.cap_channel[rs[j].label] = targets.cap_channel[rs[k].label]
                              => j = k

\* a constructed system whose mux of two resonators is wired to a readout and
\* to a capture port
C22_Witness ==
    /\ pc = "constructed"
    /\ WiredReadOut # {} /\ WiredReadIn # {}
    /\ Cardinality(DOMAIN targets.readout) = 2
    /\ Cardinality({targets.cap_channel[l] : l \in DOMAIN targets.cap_channel}) = 2

(***************************************************************************)
(* Properties of the order of the construction (Spec).                     *)
(***************************************************************************)
\* every field the planner writes on a port of this kind has been written
WrittenByPlanner(port) ==
    /\ port.lo_freq # Unset /\ port.cnco_freq # Unset
    /\ \A i \in DOMAIN port.channels : port.channels[i].fnco_freq # Unset
    /\ port.kind = "gen" =>
           /\ port.sideband # "unset" /\ port.vatt # Unset
           /\ port.fullscale_current # Unset

\* the steps of the construction and of the constructed system, in order
StepOrder ==
    {<<"create_qubit_port_set_map", "initialize_system">>,
     <<"initialize_system", "initialize_targets">>,
     <<"initialize_targets", "constructed">>,
     <<"constructed", "create_qubit_port_set_map">>}
    \cup {<<from, "failed">> :
             from \in {"create_qubit_port_set_map", "initialize_system", "initialize_targets"}}
    \cup {<<"constructed", method>> :
             method \in {"get_target", "get_ge_target", "get_ef_target", "get_cr_target",
                         "get_readout_target", "get_boxes_for_qubits",
                         "get_control_port"}}

PortsHandedOver ==
    [p \in DOMAIN control_system.ports |->
        NewPort(control_system.ports[p].kind, control_system.ports[p].type,
                control_system.ports[p].n_channels, control_system.ports[p].box_id)]

\* the per-port initializations have ended: all have run, or one has raised
AnyOrderEnded ==
    /\ DOMAIN pending # {}
    /\ \/ pc \in {"initialize_targets", "constructed"}
       \/ pc = "failed" /\ \E p \in DOMAIN pending : ~pending[p]

\* C25: the per-port initializations are independent of their order: each
\* changes the record of its own port only, and in whatever order they run,
\* they end with the ports in the state the box-by-box loop of
\* _initialize_system ends with.
C25_AnyOrderAsSequential ==
    AnyOrderEnded =>
        control_system.ports
            = initialize_system_from(PortsHandedOver, PortOrder(control_system), 1,
                                     quantum_system, wiring_info, control_params)

(***************************************************************************)
(* Properties of Target.new_cr_target (SpecCrTarget).                      *)
(***************************************************************************)
NewCrTargetCalled == pc = "done" /\ result.status = "ok"

\* the frequency f (kHz) is x (100 Hz) rounded to 1e-6 GHz
RoundedFrom(f, x) == f * 10 - x \in -5..5

C29_ReadoutPortsAgree ==
    pc = "constructed" =>
        \A i \in WiredReadOut, j \in WiredReadIn :
            wiring_info.read_out[i][1] = wiring_info.read_in[j][1] =>
                LET gen == control_system.ports[wiring_info.read_out[i][2]]
                    cap == control_system.ports[wiring_info.read_in[j][2]]
                IN  /\ cap.lo_freq = gen.lo_freq
                    /\ cap.cnco_freq = gen.cnco_freq
                    /\ \A k \in DOMAIN cap.channels :
                           cap.channels[k].fnco_freq = gen.channels[1].fnco_freq

\* a constructed system whose mux is wired to a planned generator port and to a
\* planned capture port of two channels
C29_Witness ==
    /\ pc = "constructed"
    /\ \E i \in WiredReadOut, j \in WiredReadIn :
           /\ wiring_info.read_out[i][1] = wiring_info.read_in[j][1]
           /\ WrittenByPlanner(control_system.ports[wiring_info.read_out[i][2]])
           /\ WrittenByPlanner(control_system.ports[wiring_info.read_in[j][2]])
           /\ control_system.ports[wiring_info.read_out[i][2]].channels[1].fnco_freq # 0
           /\ Len(control_system.ports[wiring_info.read_in[j][2]].channels) = 2

(***************************************************************************)
(* Properties of the QubitPortSet map (Spec).                              *)
(***************************************************************************)
\* the construction has succeeded: the system is there, or a lookup of it was made
Constructed ==
    pc \in {"constructed", "get_target", "get_ge_target", "get_ef_target", "get_cr_target",
            "get_readout_target", "get_boxes_for_qubits", "get_control_port"}

CtrlWiredQubits == {wiring_info.ctrl[i][1] : i \in DOMAIN wiring_info.ctrl}

\* the ports the relation wires to a mux whose resonators include the qubit q
ReadoutPortsOf(relation, q) ==
    {relation[i][2] : i \in {j \in DOMAIN relation :
        \E r \in Range(get_mux(quantum_system, relation[j][1]).resonators) : r.qubit = q}}

\* C30: after a successful construction the keys of the QubitPortSet map are
\* the labels of the qubits of the ctrl wiring, the ctrl_port of an entry is a
\* port wired to its qubit, and its read_out_port and read_in_port are ports
\* wired to the mux whose resonators include the qubit; if a ctrl-wired qubit
\* is in no mux wired in read_out or in none wired in read_in, the construction
\* fails (KeyError) and no port has been initialized; get_control_port of a
\* qubit without an entry raises a ValueError naming the qubit, and returns
\* the ctrl_port of the entry otherwise.
C30_QubitPortSetMap ==
    /\ Constructed =>
           /\ DOMAIN qubit_port_set_map = CtrlWiredQubits
           /\ \A q \in DOMAIN qubit_port_set_map :
                  /\ <<q, qubit_port_set_map[q].ctrl_port>> \in Range(wiring_info.ctrl)
                  /\ qubit_port_set_map[q].read_out_port
                         \in ReadoutPortsOf(wiring_info.read_out, q)
                  /\ qubit_port_set_map[q].read_in_port
                         \in ReadoutPortsOf(wiring_info.read_in, q)
    /\ (\E q \in CtrlWiredQubits :
            \/ ReadoutPortsOf(wiring_info.read_out, q) = {}
            \/ ReadoutPortsOf(wiring_info.read_in, q) = {}) =>
           /\ pc \in {"create_qubit_port_set_map", "failed"}
           /\ pc = "failed" => result.status = "KeyError" /\ result.msg \in CtrlWiredQubits
           /\ control_system.ports = PortsHandedOver
    /\ pc = "get_control_port" =>
           IF given_label \in DOMAIN qubit_port_set_map
           THEN result = Returned(qubit_port_set_map[given_label].ctrl_port)
           ELSE /\ result.status = "ValueError"
                /\ result.msg.qubit = given_label

\* get_control_port raising for a qubit that has no entry in a map that has
\* an entry for another qubit
C30_Witness ==
    /\ pc = "get_control_port"
    /\ result.status = "ValueError"
    /\ DOMAIN qubit_port_set_map # {}
    /\ given_label \in DOMAIN quantum_system.qubits

=============================================================================
